---- MODULE Spec2Model ----
(***************************************************************************)
(* A model of pmacFilterControl (src/src/pmacFilterControl.cpp): the       *)
(* control task (run) and the subscriber task (_process_data_channel)      *)
(* sharing the controller's fields without synchronisation.  Each task is  *)
(* a sequence of steps; a step holds the code between two points at which  *)
(* the other task's writes can make a difference.                          *)
(***************************************************************************)
EXTENDS Integers, Sequences, FiniteSets, TLC

----------------------------------------------------------------------------
(* Program constants *)

MAX_ATTENUATION == 15
FILTER_COUNT == 4
NO_FRAMES_PROCESSED == -2

\* enum ControlState.  SINGLESHOT_WAITING is used by pmacFilterControl.cpp and
\* declared by no header under src/; it is given the next free value.  The
\* code compares states for equality and with 0 and 1 only, so every value
\* above ACTIVE behaves alike.
HIGH3_TRIGGERED == -2
TIMEOUT == -1
IDLE == 0
WAITING == 1
ACTIVE == 2
SINGLESHOT_COMPLETE == 3
SINGLESHOT_WAITING == 4

\* enum ControlMode
MANUAL == 0
CONTINUOUS == 1
SINGLESHOT == 2
CONTROL_MODE_SIZE == 3

\* Constructor defaults: timeout_(3.0) and every pixel count threshold 2
DEFAULT_TIMEOUT == 3
DEFAULT_THRESHOLD == 2

THRESHOLD_ADJUSTMENTS ==
    [high3 |-> 15, high2 |-> 2, high1 |-> 1, low2 |-> -2, low1 |-> -1]

----------------------------------------------------------------------------
(* Bounds of the model *)

\* Clock ticks per second: the clock is read at sub-second resolution
TicksPerSecond == 2
\* The clock stops advancing this many ticks after start-up
MaxTicks == 3
\* Frame numbers of data messages are 0..MaxFrame
MaxFrame == 2
\* Number of subscribe endpoints given on the command line
NumEndpoints == 2
\* A configure request of the configuration specification has at most this
\* many keys
MaxKeys == 2
\* A frame stream of the replay specification has at most this many frames
MaxStream == 3

\* A frame run of the run specification has frames 0, 2, ..., 2 * MaxRun
MaxRun == 7

----------------------------------------------------------------------------
(* Values *)

Filters == 0 .. (FILTER_COUNT - 1)
Bins == {"low1", "low2", "high1", "high2", "high3"}
States == {HIGH3_TRIGGERED, TIMEOUT, IDLE, WAITING, ACTIVE,
           SINGLESHOT_WAITING, SINGLESHOT_COMPLETE}
Modes == {MANUAL, CONTINUOUS, SINGLESHOT}

\* Histograms of a data message: pixel counts below (0) and above the default
\* threshold, one histogram for each outcome of _process_data and one in which
\* every high bin is exceeded at once
Above == DEFAULT_THRESHOLD + 1
Histogram(l1, l2, h1, h2, h3) ==
    [low1 |-> l1, low2 |-> l2, high1 |-> h1, high2 |-> h2, high3 |-> h3]
ZeroHistogram == Histogram(0, 0, 0, 0, 0)
Histograms ==
    {ZeroHistogram,
     Histogram(0, Above, 0, 0, 0),
     Histogram(Above, Above, 0, 0, 0),
     Histogram(Above, Above, Above, 0, 0),
     Histogram(0, 0, Above, Above, 0),
     Histogram(Above, Above, 0, 0, Above),
     Histogram(0, 0, Above, Above, Above)}

\* A received payload after _parse_json_string: "null" is a payload that is
\* not valid JSON, "no_frame" a JSON value without an integer frame_number,
\* "no_params" an object with frame_number and without parameters.
NoMsg == [kind |-> "none", frame_number |-> 0, parameters |-> ZeroHistogram]
DataMessages ==
    {[kind |-> "ok", frame_number |-> f, parameters |-> h] :
        f \in 0 .. MaxFrame, h \in Histograms}
    \cup {[kind |-> k, frame_number |-> 0, parameters |-> ZeroHistogram] :
            k \in {"null", "no_frame"}}
    \cup {[kind |-> "no_params", frame_number |-> f, parameters |-> ZeroHistogram] :
            f \in 0 .. MaxFrame}

\* The keys of a configure request, in the order _handle_config looks at them
ConfigKeys ==
    <<"mode", "in_positions", "out_positions", "pixel_count_thresholds",
      "attenuation", "timeout">>

\* A mapping without a recognised entry
NoMap == [i \in {} |-> 0]

\* Configure requests sent on the control channel: the keys present, the keys
\* whose value has a type its conversion rejects (json::type_error), and the
\* values: the recognised entries of the three mappings, and timeouts in ticks
NoRequest ==
    [keys |-> {}, bad |-> {}, mode |-> 0, mode_high |-> 0, in_positions |-> NoMap,
     out_positions |-> NoMap, thresholds |-> NoMap, attenuation |-> 0,
     timeout |-> 0]
AttenuationInputs == -1 .. (MAX_ATTENUATION + 1)
ManualInputs == {5, 10}
TimeoutInputs == {TicksPerSecond, TicksPerSecond + 1}
ModeRequests ==
    {[NoRequest EXCEPT !.keys = {"mode"}, !.mode = m] : m \in Modes}
AttenuationRequests(inputs) ==
    {[NoRequest EXCEPT !.keys = {"attenuation"}, !.attenuation = a] :
        a \in inputs}
    \cup {[NoRequest EXCEPT !.keys = {"mode", "attenuation"}, !.mode = MANUAL,
                            !.attenuation = a] : a \in inputs}
TimeoutRequests ==
    {[NoRequest EXCEPT !.keys = {"timeout"}, !.timeout = t] : t \in TimeoutInputs}

\* The data messages of the manual-control and of the timing specifications
ManualMessages ==
    {m \in DataMessages :
        /\ m.kind \in {"ok", "null"}
        /\ m.frame_number = 0
        /\ m.parameters \in {ZeroHistogram, Histogram(Above, Above, 0, 0, 0),
                            Histogram(Above, Above, 0, 0, Above)}}
TimeMessages ==
    {m \in DataMessages :
        /\ m.kind \in {"ok", "null"}
        /\ m.frame_number = 0
        /\ m.parameters \in {ZeroHistogram, Histogram(Above, Above, 0, 0, 0)}}

\* The data messages and the request of the threshold specification: every
\* count below, at and above the default threshold, and a request that raises
\* the high2 threshold
ThresholdCounts == (DEFAULT_THRESHOLD - 1) .. (DEFAULT_THRESHOLD + 1)
ThresholdMessages ==
    {[kind |-> "ok", frame_number |-> f, parameters |-> Histogram(l1, l2, h1, h2, 0)] :
        f \in {0, MaxFrame}, l1 \in ThresholdCounts, l2 \in ThresholdCounts,
        h1 \in ThresholdCounts, h2 \in ThresholdCounts}
ThresholdRequests ==
    {[NoRequest EXCEPT !.keys = {"pixel_count_thresholds"},
                       !.thresholds = [b \in {"high2"} |-> Above]]}

\* The data messages of the replay specification: one that triggers low2, one
\* that triggers nothing, one that triggers high2 and one that triggers high3
ReplayMessages ==
    {m \in DataMessages :
        /\ m.kind = "ok"
        /\ m.frame_number < MaxStream
        /\ m.parameters \in {ZeroHistogram, Histogram(Above, Above, 0, 0, 0),
                            Histogram(0, 0, Above, Above, 0),
                            Histogram(Above, Above, 0, 0, Above)}}

\* The data messages of the status specification
StatusMessages ==
    {m \in DataMessages :
        /\ m.kind = "ok"
        /\ m.frame_number \in {0, MaxFrame}
        /\ m.parameters \in {ZeroHistogram, Histogram(Above, Above, 0, 0, Above)}}

\* The data messages of the shutdown specification: two with frame_number and
\* parameters, one of which triggers low2, and one without frame_number
ShutdownMessages ==
    {m \in DataMessages :
        /\ m.kind \in {"ok", "no_frame"}
        /\ m.frame_number = 0
        /\ m.parameters \in {ZeroHistogram, Histogram(Above, Above, 0, 0, 0)}}

\* The data messages of the reset specification
ResetMessages ==
    {m \in DataMessages :
        /\ m.kind = "ok"
        /\ m.parameters \in {ZeroHistogram, Histogram(Above, Above, 0, 0, 0)}}

\* The attenuation demands and the data messages of the level specification:
\* a demand below the range, one within it and one above it; a message that
\* triggers low2 and one that triggers high2
LevelInputs == {-1, 6, MAX_ATTENUATION + 1}
LevelMessages ==
    {m \in DataMessages :
        /\ m.kind = "ok"
        /\ m.frame_number = 0
        /\ m.parameters \in {ZeroHistogram, Histogram(0, 0, Above, Above, 0)}}

\* The data messages of the mode specification: one that triggers low2, one
\* that triggers nothing and one that triggers high3
ModeMessages ==
    {m \in DataMessages :
        /\ m.kind = "ok"
        /\ m.frame_number = 0
        /\ m.parameters \in {ZeroHistogram, Histogram(Above, Above, 0, 0, 0),
                            Histogram(Above, Above, 0, 0, Above)}}

\* The data messages of the run specification: every second frame number, so
\* that no frame is dropped by its number, with a histogram that triggers low2
\* and one that triggers nothing
RunMessages ==
    {[kind |-> "ok", frame_number |-> 2 * i, parameters |-> h] :
        i \in 0 .. MaxRun,
        h \in {ZeroHistogram, Histogram(Above, Above, 0, 0, 0)}}

\* The requests of the configuration specification: every request of at most
\* MaxKeys keys in which each key has a value its setter accepts ("ok"), one it
\* rejects ("rejected") or one of the wrong type ("bad"); and a request for
\* each of the modes -1 and 2^32
KeyOptions == {"ok", "rejected", "bad"}
MakeRequest(ks, opt, m) ==
    [keys |-> ks,
     bad |-> {k \in ks : opt[k] = "bad"},
     mode |-> IF "mode" \notin ks THEN 0
              ELSE IF opt["mode"] = "ok" THEN m ELSE CONTROL_MODE_SIZE,
     mode_high |-> 0,
     in_positions |-> IF "in_positions" \in ks /\ opt["in_positions"] = "ok"
                      THEN [i \in {0} |-> 1] ELSE NoMap,
     out_positions |-> IF "out_positions" \in ks /\ opt["out_positions"] = "ok"
                       THEN [i \in {0} |-> 1] ELSE NoMap,
     thresholds |-> IF "pixel_count_thresholds" \in ks
                       /\ opt["pixel_count_thresholds"] = "ok"
                    THEN [b \in {"high2"} |-> Above] ELSE NoMap,
     attenuation |-> IF "attenuation" \in ks THEN 5 ELSE 0,
     timeout |-> IF "timeout" \notin ks THEN 0
                 ELSE IF opt["timeout"] = "rejected" THEN -1 ELSE TicksPerSecond]
ConfigRequests ==
    UNION {{MakeRequest(ks, opt, m) : opt \in [ks -> KeyOptions], m \in Modes} :
            ks \in {x \in SUBSET {ConfigKeys[i] : i \in DOMAIN ConfigKeys} :
                        Cardinality(x) \in 1 .. MaxKeys}}
    \cup {[NoRequest EXCEPT !.keys = {"mode"}, !.mode_high = -1,
                            !.mode = (2 ^ 16) - 1],
          [NoRequest EXCEPT !.keys = {"mode"}, !.mode_high = 2 ^ 16]}

NoEvent == [frame_number |-> -1, adjustment |-> 0, attenuation |-> 0]
NoPass == [valid |-> FALSE, state |-> IDLE, mode |-> MANUAL, start |-> FALSE,
           due |-> FALSE, elapsed |-> FALSE]
NoApplied == [valid |-> FALSE, adjustment |-> 0, attenuation |-> 0, moved |-> FALSE]
NoResponse == [sent |-> FALSE, success |-> FALSE]
\* The status object before _handle_status has read anything
NoStatus ==
    [sent |-> FALSE, snapshot |-> FALSE, last_received_frame |-> 0,
     last_processed_frame |-> 0, current_attenuation |-> 0, state |-> IDLE]

\* The wall clock at start-up, in ticks since the epoch: later than any timeout
BootTicks == (DEFAULT_TIMEOUT + 1) * TicksPerSecond

----------------------------------------------------------------------------
VARIABLES
    \* PMACFilterController fields
    state, last_received_frame, last_processed_frame, last_message_ts,
    singleshot_start, clear_error, shutdown,
    current_attenuation, last_adjustment,
    current_demand, post_in_demand, final_demand,
    mode, timeout, in_positions, out_positions, pixel_count_thresholds,
    \* the subscriber task: its position and its locals
    sub_pc, idx, msg, processed, threshold, sa_att, sa_ret, tr_state, tr_ret,
    \* the control task: its position, its locals and the reply it sent last
    ctl_pc, ctl_att, ctl_req, response,
    \* the environment: the wall clock, the publish socket, the motion controller
    now, last_event, shutter_closed,
    \* observers: events published for the message in hand, whether the control
    \* task ran _set_attenuation since the subscriber last began one, the
    \* conditions at the head of the supervisor pass in progress, and the
    \* adjustment last applied with the attenuation it left
    published, ctl_moved, pass_start, applied,
    \* the status request: the values _handle_status has read so far, and the
    \* values the four reported fields held together at some instant since it
    \* began
    status, seen,
    \* the frame stream of the replay specification: the messages delivered in
    \* the first run, the number of them delivered again after the reset (-1
    \* before it), and the adjustment chosen for each delivered message
    stream, resent, chosen

cfgVars == <<mode, timeout, in_positions, out_positions, pixel_count_thresholds>>
flagVars == <<singleshot_start, clear_error, shutdown>>
frameVars == <<last_received_frame, last_processed_frame>>
attVars == <<current_attenuation, current_demand, post_in_demand, final_demand>>
callVars == <<sa_att, sa_ret, tr_state, tr_ret>>
msgVars == <<idx, msg, processed, threshold>>
ctlVars == <<ctl_pc, ctl_att, ctl_req, response>>
envVars == <<now, last_event, shutter_closed>>
obsVars == <<published, ctl_moved, pass_start, applied>>
statusVars == <<status, seen>>
replayVars == <<stream, resent, chosen>>

vars == <<state, last_received_frame, last_processed_frame, last_message_ts,
          singleshot_start, clear_error, shutdown,
          current_attenuation, last_adjustment,
          current_demand, post_in_demand, final_demand,
          mode, timeout, in_positions, out_positions, pixel_count_thresholds,
          sub_pc, idx, msg, processed, threshold, sa_att, sa_ret, tr_state, tr_ret,
          ctl_pc, ctl_att, ctl_req, response,
          now, last_event, shutter_closed,
          published, ctl_moved, pass_start, applied,
          status, seen, stream, resent, chosen>>

----------------------------------------------------------------------------
(* Pure parts of the code *)

\* A faulty variant of the clamp: the level is reduced to its four low bits
ClampWrapped(a) == a % (MAX_ATTENUATION + 1)

\* _set_attenuation, lines 656-662: the clamp of the demanded level
ClampAttenuation(a) ==
    IF a <= 0 THEN 0
    ELSE IF a >= MAX_ATTENUATION THEN MAX_ATTENUATION
    ELSE a

\* (attenuation >> idx) & 1
FinalDemand(a) == [i \in Filters |-> (a \div (2 ^ i)) % 2]

BitOr(a, b) == IF a = 1 \/ b = 1 THEN 1 ELSE 0

\* A faulty variant of the phase-1 demand: final_demand_[idx] ^ current_demand_[idx]
PostInExclusive(final, current) ==
    [i \in Filters |-> IF final[i] = current[i] THEN 0 ELSE 1]

\* A faulty variant of the phase-1 demand: the final demand alone, which
\* withdraws a filter in the same phase as it inserts another
PostInFinalOnly(final, current) == final

\* final_demand_[idx] | current_demand_[idx]
PostInDemand(final, current) == [i \in Filters |-> BitOr(final[i], current[i])]

\* The attenuation level a demand vector encodes
RECURSIVE LevelUpTo(_, _)
LevelUpTo(d, n) == IF n = 0 THEN 0 ELSE LevelUpTo(d, n - 1) + d[n - 1] * (2 ^ (n - 1))
Level(d) == LevelUpTo(d, FILTER_COUNT)

\* tv_sec of a clock reading
TvSec(t) == t \div TicksPerSecond

\* _seconds_since: the difference of the whole seconds of the two readings
SecondsSince(ts) == TvSec(now) - TvSec(ts)

\* A faulty variant of the timeout test: the clock readings are compared, not
\* their whole seconds
TimeoutExact(ts, limit) == now - ts >= limit

\* _seconds_since(last_message_ts_) >= timeout_, the timeout held in ticks
TimeoutReached(ts, limit) == SecondsSince(ts) * TicksPerSecond >= limit

\* A faulty variant of the condition of _transition_state: MAX_ATTENUATION on
\* entering an error state only
NeedsMaxOnError(target, current) ==
    /\ target # current
    /\ target < 0

\* _transition_state: whether the transition commands MAX_ATTENUATION
NeedsMax(target, current) ==
    /\ target # current
    /\ \/ target < 1
       \/ /\ target = WAITING \/ target = SINGLESHOT_WAITING
          /\ current >= 0

\* A faulty variant of the test of _process_singleshot_state: both conditions
\* are required
StabilisedBoth(received, done, attenuation) ==
    received >= done + 2 /\ attenuation = 0

\* A faulty variant of the test of _process_singleshot_state: the frame that
\* follows the last processed one ends the run
StabilisedNextFrame(received, done, attenuation) ==
    received >= done + 1 \/ attenuation = 0

\* _process_singleshot_state: the singleshot run has stabilised
Stabilised(received, done, attenuation) ==
    received >= done + 2 \/ attenuation = 0

\* A faulty variant of the test of line 432: messages are handled in every
\* state
HandlesAlways(s) == TRUE

\* A faulty variant of the test of line 432: messages are handled in every
\* healthy state but IDLE
HandlesUnlessIdle(s) == s >= WAITING

\* _process_data_channel, line 432: the states in which a received message is
\* handled
Handles(s) == s = WAITING \/ s = ACTIVE

\* A faulty variant of the frame test: only frames not after the last
\* processed one are ignored
IgnoreOlderOnly(frame, done) == frame <= done

\* _process_data: the frame is ignored because of its number
IgnoreFrame(frame, done) == frame <= done \/ frame = done + 1

\* A faulty variant of _process_data: the frame number is tested before high3
DecideFrameFirst(m, done, thresholds) ==
    IF m.kind # "ok" THEN "invalid"
    ELSE IF IgnoreFrame(m.frame_number, done) THEN "ignore"
    ELSE IF m.parameters.high3 > thresholds.high3 THEN "high3"
    ELSE IF m.parameters.high2 > thresholds.high2 THEN "high2"
    ELSE IF m.parameters.high1 > thresholds.high1 THEN "high1"
    ELSE IF m.parameters.low2 < thresholds.low2 THEN "low2"
    ELSE IF m.parameters.low1 < thresholds.low1 THEN "low1"
    ELSE "none"

\* A faulty variant of _process_data: the high3 count is not looked at
DecideWithoutHigh3(m, done, thresholds) ==
    IF m.kind # "ok" THEN "invalid"
    ELSE IF IgnoreFrame(m.frame_number, done) THEN "ignore"
    ELSE IF m.parameters.high2 > thresholds.high2 THEN "high2"
    ELSE IF m.parameters.high1 > thresholds.high1 THEN "high1"
    ELSE IF m.parameters.low2 < thresholds.low2 THEN "low2"
    ELSE IF m.parameters.low1 < thresholds.low1 THEN "low1"
    ELSE "none"

\* A faulty variant of _process_data: a count equal to its threshold triggers
DecideInclusive(m, done, thresholds) ==
    IF m.kind # "ok" THEN "invalid"
    ELSE IF m.parameters.high3 > thresholds.high3 THEN "high3"
    ELSE IF IgnoreFrame(m.frame_number, done) THEN "ignore"
    ELSE IF m.parameters.high2 >= thresholds.high2 THEN "high2"
    ELSE IF m.parameters.high1 >= thresholds.high1 THEN "high1"
    ELSE IF m.parameters.low2 <= thresholds.low2 THEN "low2"
    ELSE IF m.parameters.low1 <= thresholds.low1 THEN "low1"
    ELSE "none"

\* _process_data: the threshold the message triggers, "ignore" for a frame
\* dropped by its number, "invalid" for a message without parameters, "none"
\* when no threshold is triggered
Decide(m, done, thresholds) ==
    IF m.kind # "ok" THEN "invalid"
    ELSE IF m.parameters.high3 > thresholds.high3 THEN "high3"
    ELSE IF IgnoreFrame(m.frame_number, done) THEN "ignore"
    ELSE IF m.parameters.high2 > thresholds.high2 THEN "high2"
    ELSE IF m.parameters.high1 > thresholds.high1 THEN "high1"
    ELSE IF m.parameters.low2 < thresholds.low2 THEN "low2"
    ELSE IF m.parameters.low1 < thresholds.low1 THEN "low1"
    ELSE "none"

\* The adjustment _process_data chooses for a message: that of the threshold
\* it triggers, none (0) otherwise
Adjustment(d) ==
    IF d \in {"invalid", "ignore", "none"} THEN 0 ELSE THRESHOLD_ADJUSTMENTS[d]

\* Faulty variants of the event: one that carries the attenuation the last
\* adjustment aimed at, one that drops the adjustment
EventWithTarget(frame, adjustment, attenuation) ==
    [frame_number |-> frame, adjustment |-> adjustment,
     attenuation |-> ClampAttenuation(attenuation + adjustment)]
EventWithoutAdjustment(frame, adjustment, attenuation) ==
    [frame_number |-> frame, adjustment |-> 0, attenuation |-> attenuation]

\* _publish_event: the event built for a frame
Event(frame, adjustment, attenuation) ==
    [frame_number |-> frame, adjustment |-> adjustment, attenuation |-> attenuation]

----------------------------------------------------------------------------
(* The constructor *)

Init ==
    /\ state = IDLE
    /\ last_received_frame = NO_FRAMES_PROCESSED
    /\ last_processed_frame = NO_FRAMES_PROCESSED
    /\ last_message_ts = 0
    /\ singleshot_start = FALSE
    /\ clear_error = FALSE
    /\ shutdown = FALSE
    /\ current_attenuation = 0
    /\ last_adjustment = 0
    /\ current_demand = [i \in Filters |-> 0]
    /\ post_in_demand = [i \in Filters |-> 0]
    /\ final_demand = [i \in Filters |-> 0]
    /\ mode = MANUAL
    /\ timeout = DEFAULT_TIMEOUT * TicksPerSecond
    /\ in_positions = [i \in Filters |-> 0]
    /\ out_positions = [i \in Filters |-> 0]
    /\ pixel_count_thresholds = [b \in Bins |-> DEFAULT_THRESHOLD]
    /\ sub_pc = "loop"
    /\ idx = 0
    /\ msg = NoMsg
    /\ processed = FALSE
    /\ threshold = "none"
    /\ sa_att = 0
    /\ sa_ret = "none"
    /\ tr_state = IDLE
    /\ tr_ret = "none"
    /\ ctl_pc = "recv"
    /\ ctl_att = 0
    /\ ctl_req = NoRequest
    /\ response = NoResponse
    /\ now = BootTicks
    /\ last_event = NoEvent
    /\ shutter_closed = FALSE
    /\ published = 0
    /\ ctl_moved = FALSE
    /\ pass_start = NoPass
    /\ applied = NoApplied
    /\ status = NoStatus
    /\ seen = {}
    /\ stream = <<>>
    /\ resent = -1
    /\ chosen = <<>>

----------------------------------------------------------------------------
(* The control task: run and _handle_request.  It serves one request at a  *)
(* time; a request is handled in one step, except that a configure request *)
(* that reaches _set_attenuation takes the two steps of that method.       *)

\* The four fields of the status reply that the subscriber task writes
Fields ==
    <<state, current_attenuation, last_received_frame, last_processed_frame>>

\* While _handle_status is reading, the values the fields hold after a step
\* of the subscriber task are values they held together
Watch ==
    seen' = IF ctl_pc \in {"st_processed", "st_attenuation", "st_state"}
            THEN seen \cup {Fields'}
            ELSE seen

\* The position of a key in ConfigKeys
KeyIndex(k) == CHOOSE i \in 1 .. Len(ConfigKeys) : ConfigKeys[i] = k

\* The conversion of a JSON integer to ControlMode: to the 32-bit unsigned
\* underlying type of the enumeration.  The integer sent is
\* mode_high * 2^16 + mode with mode in 0 .. 2^16 - 1, and the converted value
\* is held as its two 16-bit halves.
ModeValue(req) == [high |-> req.mode_high % (2 ^ 16), low |-> req.mode]

\* mode < ControlMode::CONTROL_MODE_SIZE, line 264
ModeInRange(req) ==
    /\ ModeValue(req).high = 0
    /\ ModeValue(req).low < CONTROL_MODE_SIZE

\* _set_mode: the mode after a request
SetMode(old, req) ==
    IF "mode" \in req.keys /\ "mode" \notin req.bad /\ ModeInRange(req)
    THEN ModeValue(req).low
    ELSE old

\* _set_timeout: the timeout after a request, unchanged when it has no
\* timeout key or a negative one
SetTimeout(old, req) ==
    IF "timeout" \in req.keys /\ "timeout" \notin req.bad /\ req.timeout >= 0
    THEN req.timeout
    ELSE old

\* _set_positions and _set_pixel_count_thresholds: the entries of the new
\* mapping replace those of the old
SetPositions(old, new) ==
    [i \in DOMAIN old |-> IF i \in DOMAIN new THEN new[i] ELSE old[i]]
SetPixelCountThresholds(old, new) ==
    [b \in DOMAIN old |-> IF b \in DOMAIN new THEN new[b] ELSE old[b]]

\* The conversion of the value of key k throws json::type_error, the mode
\* being m when the key is looked at: the attenuation is converted in MANUAL
\* mode only
Throws(req, k, m) ==
    /\ k \in req.bad
    /\ k = "attenuation" => m = MANUAL

\* _handle_config gets as far as key k and through it: no key up to k throws
Handled(req, k, m) ==
    /\ k \in req.keys
    /\ \A j \in 1 .. KeyIndex(k) : ~Throws(req, ConfigKeys[j], m)

\* What the setter of key k returns
KeySuccess(req, k, m) ==
    CASE k = "mode" -> ModeInRange(req)
      [] k = "in_positions" -> DOMAIN req.in_positions # {}
      [] k = "out_positions" -> DOMAIN req.out_positions # {}
      [] k = "pixel_count_thresholds" -> DOMAIN req.thresholds # {}
      [] k = "attenuation" -> m = MANUAL
      [] k = "timeout" -> req.timeout >= 0

\* _handle_config as _handle_request calls it: `success` is what the setter of
\* the last key present returned, false when a conversion throws or no key is
\* recognised
HandleConfig(req, m) ==
    LET present == {i \in 1 .. Len(ConfigKeys) : ConfigKeys[i] \in req.keys} IN
    /\ \A k \in req.keys : ~Throws(req, k, m)
    /\ present # {}
    /\ KeySuccess(req, ConfigKeys[CHOOSE i \in present : \A j \in present : i >= j], m)

Reply(ok) == [sent |-> TRUE, success |-> ok]

\* The process is alive and the control task is blocked in recv
CtlReady == ctl_pc = "recv" /\ sub_pc # "aborted"

CtlShutdown ==
    /\ CtlReady
    /\ shutdown' = TRUE
    /\ ctl_pc' = "done"
    /\ response' = Reply(TRUE)
    /\ pass_start' = NoPass
    /\ UNCHANGED <<state, frameVars, last_message_ts, singleshot_start, clear_error,
                   attVars, last_adjustment, cfgVars, sub_pc, msgVars, callVars,
                   ctl_att, ctl_req, envVars, published, ctl_moved, applied>>
    /\ UNCHANGED statusVars
    /\ UNCHANGED replayVars

Reset ==
    /\ CtlReady
    /\ last_received_frame' = NO_FRAMES_PROCESSED
    /\ last_processed_frame' = NO_FRAMES_PROCESSED
    /\ response' = Reply(TRUE)
    /\ pass_start' = NoPass
    /\ UNCHANGED <<state, last_message_ts, flagVars, attVars, last_adjustment,
                   cfgVars, sub_pc, msgVars, callVars, ctl_pc, ctl_att, ctl_req,
                   envVars, published, ctl_moved, applied>>
    /\ UNCHANGED statusVars

\* run, line 399: subscribe_thread_.join() returns once the subscriber task
\* has left its loop, and run returns
CtlJoin ==
    /\ ctl_pc = "done"
    /\ sub_pc = "done"
    /\ ctl_pc' = "returned"
    /\ UNCHANGED <<state, frameVars, last_message_ts, flagVars, attVars,
                   last_adjustment, cfgVars, sub_pc, msgVars, callVars, ctl_att,
                   ctl_req, response, envVars, obsVars, statusVars, replayVars>>

CtlReset == Reset /\ UNCHANGED replayVars

\* The reset issued once the frame stream has been delivered
CtlResetStream ==
    /\ resent = -1
    /\ stream # <<>>
    /\ Reset
    /\ resent' = 0
    /\ UNCHANGED <<stream, chosen>>

\* _handle_status, lines 354-360: the four fields are read one after the
\* other, without synchronisation; the reply follows the last read
CtlStatus ==
    /\ CtlReady
    /\ ctl_pc' = "st_processed"
    /\ status' = [NoStatus EXCEPT !.last_received_frame = last_received_frame]
    /\ seen' = {Fields}
    /\ UNCHANGED <<state, frameVars, last_message_ts, flagVars, attVars,
                   last_adjustment, cfgVars, sub_pc, msgVars, callVars, ctl_att,
                   ctl_req, response, envVars, published, ctl_moved, pass_start,
                   applied, replayVars>>

CtlStatusProcessed ==
    /\ ctl_pc = "st_processed"
    /\ ctl_pc' = "st_attenuation"
    /\ status' = [status EXCEPT !.last_processed_frame = last_processed_frame]
    /\ UNCHANGED <<state, frameVars, last_message_ts, flagVars, attVars,
                   last_adjustment, cfgVars, sub_pc, msgVars, callVars, ctl_att,
                   ctl_req, response, envVars, published, ctl_moved, pass_start,
                   applied, seen, replayVars>>

CtlStatusAttenuation ==
    /\ ctl_pc = "st_attenuation"
    /\ ctl_pc' = "st_state"
    /\ status' = [status EXCEPT !.current_attenuation = current_attenuation]
    /\ UNCHANGED <<state, frameVars, last_message_ts, flagVars, attVars,
                   last_adjustment, cfgVars, sub_pc, msgVars, callVars, ctl_att,
                   ctl_req, response, envVars, published, ctl_moved, pass_start,
                   applied, seen, replayVars>>

CtlStatusState ==
    /\ ctl_pc = "st_state"
    /\ ctl_pc' = "recv"
    /\ status' = [status EXCEPT
                    !.state = state,
                    !.sent = TRUE,
                    !.snapshot = <<state, status.current_attenuation,
                                   status.last_received_frame,
                                   status.last_processed_frame>> \in seen]
    /\ seen' = {}
    /\ response' = Reply(TRUE)
    /\ UNCHANGED <<state, frameVars, last_message_ts, flagVars, attVars,
                   last_adjustment, cfgVars, sub_pc, msgVars, callVars, ctl_att,
                   ctl_req, envVars, published, ctl_moved, pass_start, applied,
                   replayVars>>

CtlClearError ==
    /\ CtlReady
    /\ clear_error' = TRUE
    /\ response' = Reply(TRUE)
    /\ pass_start' = NoPass
    /\ UNCHANGED <<state, frameVars, last_message_ts, singleshot_start, shutdown,
                   attVars, last_adjustment, cfgVars, sub_pc, msgVars, callVars,
                   ctl_pc, ctl_att, ctl_req, envVars, published, ctl_moved,
                   applied>>
    /\ UNCHANGED statusVars
    /\ UNCHANGED replayVars

CtlSingleshot ==
    /\ CtlReady
    /\ singleshot_start' = TRUE
    /\ response' = Reply(TRUE)
    /\ pass_start' = NoPass
    /\ UNCHANGED <<state, frameVars, last_message_ts, clear_error, shutdown,
                   attVars, last_adjustment, cfgVars, sub_pc, msgVars, callVars,
                   ctl_pc, ctl_att, ctl_req, envVars, published, ctl_moved,
                   applied>>
    /\ UNCHANGED statusVars
    /\ UNCHANGED replayVars

\* A request that is not valid JSON, has no command, an unknown command, or is
\* a configure without params: _handle_request returns false
CtlInvalid ==
    /\ CtlReady
    /\ response' = Reply(FALSE)
    /\ pass_start' = NoPass
    /\ UNCHANGED <<state, frameVars, last_message_ts, flagVars, attVars,
                   last_adjustment, cfgVars, sub_pc, msgVars, callVars, ctl_pc,
                   ctl_att, ctl_req, envVars, published, ctl_moved, applied>>
    /\ UNCHANGED statusVars
    /\ UNCHANGED replayVars

\* _handle_config: the keys in the order of ConfigKeys, up to the first whose
\* conversion throws.  A request that reaches _set_attenuation takes the two
\* steps of that method; ctl_req holds the request meanwhile (the attenuation
\* is in ctl_att), and the reply is sent when the method has returned and the
\* timeout key has been looked at.
CtlConfigure(req) ==
    LET m == SetMode(mode, req) IN
        /\ CtlReady
        /\ mode' = m
        /\ in_positions' = IF Handled(req, "in_positions", m)
                           THEN SetPositions(in_positions, req.in_positions)
                           ELSE in_positions
        /\ out_positions' = IF Handled(req, "out_positions", m)
                            THEN SetPositions(out_positions, req.out_positions)
                            ELSE out_positions
        /\ pixel_count_thresholds' =
                IF Handled(req, "pixel_count_thresholds", m)
                THEN SetPixelCountThresholds(pixel_count_thresholds, req.thresholds)
                ELSE pixel_count_thresholds
        /\ IF Handled(req, "attenuation", m) /\ m = MANUAL
           THEN /\ ctl_pc' = "sa_begin"
                /\ ctl_att' = req.attenuation
                /\ ctl_req' = [req EXCEPT !.attenuation = 0]
                /\ UNCHANGED <<timeout, response>>
           ELSE /\ timeout' = IF Handled(req, "timeout", m)
                              THEN SetTimeout(timeout, req)
                              ELSE timeout
                /\ response' = Reply(HandleConfig(req, m))
                /\ UNCHANGED <<ctl_pc, ctl_att, ctl_req>>
        /\ pass_start' = NoPass
        /\ UNCHANGED <<state, frameVars, last_message_ts, flagVars, attVars,
                       last_adjustment, sub_pc, msgVars, callVars, envVars,
                       published, ctl_moved, applied>>
    /\ UNCHANGED statusVars
    /\ UNCHANGED replayVars

\* _set_attenuation on the control task, lines 656-692: clamp, compute the two
\* demands and run the motion program
CtlSetAttenuationBegin ==
    /\ ctl_pc = "sa_begin"
    /\ sub_pc # "aborted"
    /\ ctl_att' = ClampAttenuation(ctl_att)
    /\ final_demand' = FinalDemand(ClampAttenuation(ctl_att))
    /\ post_in_demand' = PostInDemand(FinalDemand(ClampAttenuation(ctl_att)),
                                      current_demand)
    /\ ctl_pc' = "sa_commit"
    /\ ctl_moved' = TRUE
    /\ pass_start' = NoPass
    /\ UNCHANGED <<state, frameVars, last_message_ts, flagVars, current_attenuation,
                   current_demand, last_adjustment, cfgVars, sub_pc, msgVars,
                   callVars, ctl_req, response, envVars, published, applied>>
    /\ UNCHANGED statusVars
    /\ UNCHANGED replayVars

\* _set_attenuation on the control task, lines 694-698, and the rest of
\* _handle_config
CtlSetAttenuationCommit ==
    /\ ctl_pc = "sa_commit"
    /\ sub_pc # "aborted"
    /\ current_demand' = final_demand
    /\ current_attenuation' = ctl_att
    /\ timeout' = IF Handled(ctl_req, "timeout", mode)
                  THEN SetTimeout(timeout, ctl_req)
                  ELSE timeout
    /\ response' = Reply(HandleConfig(ctl_req, mode))
    /\ ctl_pc' = "recv"
    /\ ctl_att' = 0
    /\ ctl_req' = NoRequest
    /\ ctl_moved' = TRUE
    /\ pass_start' = NoPass
    /\ applied' = [applied EXCEPT !.moved = applied.valid]
    /\ UNCHANGED <<state, frameVars, last_message_ts, flagVars, post_in_demand,
                   final_demand, last_adjustment, mode, in_positions,
                   out_positions, pixel_count_thresholds, sub_pc, msgVars,
                   callVars, envVars, published>>
    /\ UNCHANGED statusVars
    /\ UNCHANGED replayVars

\* The wall clock advances
Tick ==
    /\ now < BootTicks + MaxTicks
    /\ now' = now + 1
    /\ UNCHANGED <<state, frameVars, last_message_ts, flagVars, attVars,
                   last_adjustment, cfgVars, sub_pc, msgVars, callVars, ctlVars,
                   last_event, shutter_closed, obsVars>>
    /\ UNCHANGED statusVars
    /\ UNCHANGED replayVars

----------------------------------------------------------------------------
(* The subscriber task: _process_data_channel *)

\* Continue at `ret` without a state transition
Goto(ret) ==
    /\ sub_pc' = ret
    /\ UNCHANGED <<state, callVars>>

\* _transition_state(target), lines 527-531, then continue at `ret`.  A
\* transition that commands MAX_ATTENUATION goes through _set_attenuation and
\* writes state_ afterwards (SubTransitionWrite); any other writes it at once.
Transition(target, ret) ==
    IF NeedsMax(target, state)
    THEN /\ sub_pc' = "sa_begin"
         /\ sa_att' = MAX_ATTENUATION
         /\ sa_ret' = "tr_write"
         /\ tr_state' = target
         /\ tr_ret' = ret
         /\ state' = state
    ELSE /\ state' = target
         /\ sub_pc' = ret
         /\ UNCHANGED callVars

\* What the supervisor pass finds at its head: state, mode and singleshot
\* flag, whether the whole seconds of the clock are at least the timeout after
\* those of the last message, and whether the clock itself is
PassStart ==
    [valid |-> TRUE, state |-> state, mode |-> mode, start |-> singleshot_start,
     due |-> ((now \div TicksPerSecond) - (last_message_ts \div TicksPerSecond))
                * TicksPerSecond >= timeout,
     elapsed |-> now - last_message_ts >= timeout]

\* while (!this->shutdown_), line 420
SubLoop ==
    /\ sub_pc = "loop"
    /\ sub_pc' = IF shutdown THEN "done" ELSE "psc_manual"
    /\ pass_start' = IF shutdown THEN NoPass ELSE PassStart
    /\ UNCHANGED <<state, frameVars, last_message_ts, flagVars, attVars,
                   last_adjustment, cfgVars, msgVars, callVars, ctlVars, envVars,
                   published, ctl_moved, applied>>
    /\ UNCHANGED statusVars
    /\ UNCHANGED replayVars

\* A faulty variant of lines 455-457: MANUAL mode leaves an error state alone
SubManualUnlessError ==
    /\ sub_pc = "psc_manual"
    /\ IF mode = MANUAL /\ state >= 0
       THEN Transition(IDLE, "psc_mode")
       ELSE Goto("psc_mode")
    /\ UNCHANGED <<frameVars, last_message_ts, flagVars, attVars, last_adjustment,
                   cfgVars, msgVars, ctlVars, envVars, obsVars>>
    /\ Watch
    /\ UNCHANGED status
    /\ UNCHANGED replayVars

\* _process_state_changes, lines 455-457
SubManual ==
    /\ sub_pc = "psc_manual"
    /\ IF mode = MANUAL THEN Transition(IDLE, "psc_mode") ELSE Goto("psc_mode")
    /\ UNCHANGED <<frameVars, last_message_ts, flagVars, attVars, last_adjustment,
                   cfgVars, msgVars, ctlVars, envVars, obsVars>>
    /\ Watch
    /\ UNCHANGED status
    /\ UNCHANGED replayVars

\* _process_state_changes, lines 460-472
SubMode ==
    /\ sub_pc = "psc_mode"
    /\ IF mode = CONTINUOUS
       THEN IF state \in {IDLE, SINGLESHOT_COMPLETE, SINGLESHOT_WAITING}
            THEN Transition(WAITING, "psc_timeout")
            ELSE Goto("psc_timeout")
       ELSE IF mode = SINGLESHOT
            THEN IF state \in {IDLE, WAITING}
                 THEN Transition(SINGLESHOT_WAITING, "psc_singleshot")
                 ELSE Goto("psc_singleshot")
            ELSE Goto("psc_timeout")
    /\ UNCHANGED <<frameVars, last_message_ts, flagVars, attVars, last_adjustment,
                   cfgVars, msgVars, ctlVars, envVars, obsVars>>
    /\ Watch
    /\ UNCHANGED status
    /\ UNCHANGED replayVars

\* _process_singleshot_state, lines 502-520
SubSingleshot ==
    /\ sub_pc = "psc_singleshot"
    /\ IF /\ state = ACTIVE
          /\ Stabilised(last_received_frame, last_processed_frame,
                        current_attenuation)
       THEN Transition(SINGLESHOT_COMPLETE, "psc_singleshot_clear")
       ELSE IF /\ singleshot_start
               /\ state \in {SINGLESHOT_WAITING, SINGLESHOT_COMPLETE}
            THEN Transition(WAITING, "psc_timeout")
            ELSE Goto("psc_timeout")
    /\ UNCHANGED <<frameVars, last_message_ts, flagVars, attVars, last_adjustment,
                   cfgVars, msgVars, ctlVars, envVars, obsVars>>
    /\ Watch
    /\ UNCHANGED status
    /\ UNCHANGED replayVars

\* this->singleshot_start_ = false, line 509
SubSingleshotClear ==
    /\ sub_pc = "psc_singleshot_clear"
    /\ singleshot_start' = FALSE
    /\ Goto("psc_timeout")
    /\ UNCHANGED <<frameVars, last_message_ts, clear_error, shutdown, attVars,
                   last_adjustment, cfgVars, msgVars, ctlVars, envVars, obsVars>>
    /\ UNCHANGED statusVars
    /\ UNCHANGED replayVars

\* _process_state_changes, lines 475-492, then zmq::poll
SubTimeout ==
    /\ sub_pc = "psc_timeout"
    /\ idx' = 0
    /\ IF /\ state \in {ACTIVE, SINGLESHOT_COMPLETE}
          /\ TimeoutReached(last_message_ts, timeout)
       THEN /\ Transition(TIMEOUT, "recv")
            /\ UNCHANGED clear_error
       ELSE IF state < 0 /\ clear_error
            THEN /\ clear_error' = FALSE
                 /\ IF mode = SINGLESHOT
                    THEN Transition(SINGLESHOT_WAITING, "recv")
                    ELSE Transition(WAITING, "recv")
            ELSE /\ Goto("recv")
                 /\ UNCHANGED clear_error
    /\ UNCHANGED <<frameVars, last_message_ts, singleshot_start, shutdown, attVars,
                   last_adjustment, cfgVars, msg, processed, threshold, ctlVars,
                   envVars, obsVars>>
    /\ Watch
    /\ UNCHANGED status
    /\ UNCHANGED replayVars

\* The loop over the sockets, lines 425-426: every socket has been looked at
SubPollDone ==
    /\ sub_pc = "recv"
    /\ idx = NumEndpoints
    /\ sub_pc' = "loop"
    /\ idx' = 0
    /\ pass_start' = NoPass
    /\ UNCHANGED <<state, frameVars, last_message_ts, flagVars, attVars,
                   last_adjustment, cfgVars, msg, processed, threshold, callVars,
                   ctlVars, envVars, published, ctl_moved, applied>>
    /\ UNCHANGED statusVars
    /\ UNCHANGED replayVars

\* Line 426: no message is queued on socket idx
SubNoMessage ==
    /\ sub_pc = "recv"
    /\ idx < NumEndpoints
    /\ idx' = idx + 1
    /\ pass_start' = NoPass
    /\ UNCHANGED <<state, frameVars, last_message_ts, flagVars, attVars,
                   last_adjustment, cfgVars, sub_pc, msg, processed, threshold,
                   callVars, ctlVars, envVars, published, ctl_moved, applied>>
    /\ UNCHANGED statusVars
    /\ UNCHANGED replayVars

\* Lines 426-430: a message is queued on socket idx and is received
Receive(m) ==
        /\ sub_pc = "recv"
        /\ idx < NumEndpoints
        /\ msg' = m
        /\ published' = 0
        /\ pass_start' = NoPass
        /\ sub_pc' = "dispatch"
        /\ UNCHANGED <<state, frameVars, last_message_ts, flagVars, attVars,
                       last_adjustment, cfgVars, idx, processed, threshold,
                       callVars, ctlVars, envVars, ctl_moved, applied>>
        /\ UNCHANGED statusVars

\* A message that belongs to no recorded stream
SubReceive(m) == Receive(m) /\ UNCHANGED replayVars

\* A message of the frame stream, numbered from 0, in its first run; the run
\* begins when the controller is waiting for frames in CONTINUOUS mode
SubReceiveFirst(m) ==
    /\ resent = -1
    /\ stream = <<>> => (mode = CONTINUOUS /\ state = WAITING)
    /\ Len(stream) < MaxStream
    /\ m.frame_number = Len(stream)
    /\ Receive(m)
    /\ stream' = Append(stream, m)
    /\ UNCHANGED <<resent, chosen>>

\* The next message of the frame stream delivered again after the reset
SubReceiveAgain ==
    /\ resent >= 0
    /\ resent < Len(stream)
    /\ Receive(stream[resent + 1])
    /\ resent' = resent + 1
    /\ UNCHANGED <<stream, chosen>>

\* Lines 432-435: outside WAITING and ACTIVE the message is dropped
SubDiscard ==
    /\ sub_pc = "dispatch"
    /\ ~Handles(state)
    /\ msg' = NoMsg
    /\ idx' = idx + 1
    /\ sub_pc' = "recv"
    /\ UNCHANGED <<state, frameVars, last_message_ts, flagVars, attVars,
                   last_adjustment, cfgVars, processed, threshold, callVars,
                   ctlVars, envVars, obsVars>>
    /\ UNCHANGED statusVars
    /\ chosen' = IF stream # <<>> THEN Append(chosen, 0) ELSE chosen
    /\ UNCHANGED <<stream, resent>>

\* _handle_data_message, lines 543-557: a null payload returns at once; the
\* conversion of a missing frame_number to int throws json::type_error, which
\* nothing catches, and the process terminates; otherwise the frame is noted
\* and the event published
SubHandle ==
    /\ sub_pc = "dispatch"
    /\ Handles(state)
    /\ IF msg.kind = "null"
       THEN /\ sub_pc' = "post"
            /\ UNCHANGED <<last_received_frame, last_message_ts, last_event,
                           published, applied>>
       ELSE IF msg.kind = "no_frame"
            THEN /\ sub_pc' = "aborted"
                 /\ UNCHANGED <<last_received_frame, last_message_ts, last_event,
                                published, applied>>
            ELSE /\ last_received_frame' = msg.frame_number
                 /\ applied' = NoApplied
                 /\ last_message_ts' = now
                 /\ last_event' = Event(msg.frame_number, last_adjustment,
                                        current_attenuation)
                 /\ published' = published + 1
                 /\ sub_pc' = "process"
    /\ UNCHANGED <<state, last_processed_frame, flagVars, attVars, last_adjustment,
                   cfgVars, msgVars, callVars, ctlVars, now, shutter_closed,
                   ctl_moved, pass_start>>
    /\ Watch
    /\ UNCHANGED status
    /\ UNCHANGED replayVars

\* _process_data, lines 583-627, up to the call of _set_attenuation in
\* _trigger_threshold (line 640); CommandTS(CLOSE_SHUTTER) on high3
SubProcessData ==
    /\ sub_pc = "process"
    /\ LET d == Decide(msg, last_processed_frame, pixel_count_thresholds) IN
        IF d \in {"invalid", "ignore", "none"}
        THEN /\ processed' = FALSE
             /\ sub_pc' = "result"
             /\ UNCHANGED <<threshold, sa_att, sa_ret, shutter_closed>>
        ELSE /\ threshold' = d
             /\ shutter_closed' = (shutter_closed \/ d = "high3")
             /\ sa_att' = current_attenuation + THRESHOLD_ADJUSTMENTS[d]
             /\ sa_ret' = "trig_done"
             /\ sub_pc' = "sa_begin"
             /\ UNCHANGED processed
    /\ chosen' = IF stream # <<>>
                 THEN Append(chosen, Adjustment(Decide(msg, last_processed_frame,
                                                       pixel_count_thresholds)))
                 ELSE chosen
    /\ UNCHANGED <<state, frameVars, last_message_ts, flagVars, attVars,
                   last_adjustment, cfgVars, idx, msg, tr_state, tr_ret, ctlVars,
                   now, last_event, obsVars>>
    /\ UNCHANGED <<statusVars, stream, resent>>

\* _set_attenuation on the subscriber task, lines 656-692
SubSetAttenuationBegin ==
    /\ sub_pc = "sa_begin"
    /\ sa_att' = ClampAttenuation(sa_att)
    /\ final_demand' = FinalDemand(ClampAttenuation(sa_att))
    /\ post_in_demand' = PostInDemand(FinalDemand(ClampAttenuation(sa_att)),
                                      current_demand)
    /\ sub_pc' = "sa_commit"
    /\ ctl_moved' = FALSE
    /\ UNCHANGED <<state, frameVars, last_message_ts, flagVars, current_attenuation,
                   current_demand, last_adjustment, cfgVars, msgVars, sa_ret,
                   tr_state, tr_ret, ctlVars, envVars, published, pass_start,
                   applied>>
    /\ UNCHANGED statusVars
    /\ UNCHANGED replayVars

\* _set_attenuation on the subscriber task, lines 694-698
SubSetAttenuationCommit ==
    /\ sub_pc = "sa_commit"
    /\ current_demand' = final_demand
    /\ current_attenuation' = sa_att
    /\ sub_pc' = sa_ret
    /\ sa_att' = 0
    /\ sa_ret' = "none"
    /\ applied' = [applied EXCEPT !.moved = applied.valid]
    /\ UNCHANGED <<state, frameVars, last_message_ts, flagVars, post_in_demand,
                   final_demand, last_adjustment, cfgVars, msgVars, tr_state,
                   tr_ret, ctlVars, envVars, published, ctl_moved, pass_start>>
    /\ Watch
    /\ UNCHANGED status
    /\ UNCHANGED replayVars

\* _transition_state, line 534, after _set_attenuation(MAX_ATTENUATION)
SubTransitionWrite ==
    /\ sub_pc = "tr_write"
    /\ state' = tr_state
    /\ sub_pc' = tr_ret
    /\ tr_state' = IDLE
    /\ tr_ret' = "none"
    /\ UNCHANGED <<frameVars, last_message_ts, flagVars, attVars, last_adjustment,
                   cfgVars, msgVars, sa_att, sa_ret, ctlVars, envVars, obsVars>>
    /\ Watch
    /\ UNCHANGED status
    /\ UNCHANGED replayVars

\* _trigger_threshold, line 641, and for high3 the transition of line 597;
\* _process_data returns true
SubTriggerDone ==
    /\ sub_pc = "trig_done"
    /\ last_adjustment' = THRESHOLD_ADJUSTMENTS[threshold]
    /\ processed' = TRUE
    /\ IF threshold = "high3"
       THEN Transition(HIGH3_TRIGGERED, "result")
       ELSE Goto("result")
    /\ UNCHANGED <<frameVars, last_message_ts, flagVars, attVars, cfgVars, idx, msg,
                   threshold, ctlVars, envVars, obsVars>>
    /\ Watch
    /\ UNCHANGED status
    /\ UNCHANGED replayVars

\* _handle_data_message, lines 559-566
SubResult ==
    /\ sub_pc = "result"
    /\ IF processed
       THEN /\ last_processed_frame' = msg.frame_number
            /\ applied' = [valid |-> TRUE, adjustment |-> last_adjustment,
                           attenuation |-> current_attenuation, moved |-> FALSE]
            /\ UNCHANGED last_adjustment
       ELSE /\ last_adjustment' = 0
            /\ UNCHANGED <<last_processed_frame, applied>>
    /\ sub_pc' = "post"
    /\ UNCHANGED <<state, last_received_frame, last_message_ts, flagVars, attVars,
                   cfgVars, msgVars, callVars, ctlVars, envVars, published,
                   ctl_moved, pass_start>>
    /\ Watch
    /\ UNCHANGED status
    /\ UNCHANGED replayVars

\* _process_data_channel, lines 439-444, and the next socket
SubPost ==
    /\ sub_pc = "post"
    /\ idx' = idx + 1
    /\ msg' = NoMsg
    /\ processed' = FALSE
    /\ threshold' = "none"
    /\ IF state = WAITING THEN Transition(ACTIVE, "recv") ELSE Goto("recv")
    /\ last_event' = NoEvent
    /\ published' = 0
    /\ UNCHANGED <<frameVars, last_message_ts, flagVars, attVars, last_adjustment,
                   cfgVars, ctlVars, now, shutter_closed, ctl_moved, pass_start,
                   applied>>
    /\ Watch
    /\ UNCHANGED status
    /\ UNCHANGED replayVars

----------------------------------------------------------------------------
(* Specifications.  The program is the same in each; they differ in what   *)
(* the environment sends and in whether the clock advances.                *)

\* _process_state_changes and the poll: the steps of the subscriber task that
\* need no data message
SupervisorStep ==
    \/ SubLoop
    \/ SubManual
    \/ SubMode
    \/ SubSingleshot
    \/ SubTimeout
    \/ SubPollDone
    \/ SubNoMessage
    \/ SubSetAttenuationBegin
    \/ SubSetAttenuationCommit
    \/ SubTransitionWrite

\* The steps of the subscriber task that follow the receipt of a message
DataStep ==
    \/ SubDiscard
    \/ SubHandle
    \/ SubProcessData
    \/ SubTriggerDone
    \/ SubResult
    \/ SubPost

\* The same with the end of a singleshot run, which follows a message
HandlerStep ==
    \/ SubSingleshotClear
    \/ DataStep

\* The data path: every data message; mode changes, clear_error, singleshot
\* and shutdown on the control channel; the clock stands still
Next ==
    \/ SupervisorStep
    \/ HandlerStep
    \/ \E m \in DataMessages : SubReceive(m)
    \/ \E req \in ModeRequests : CtlConfigure(req)
    \/ CtlClearError
    \/ CtlSingleshot
    \/ CtlShutdown

Spec == Init /\ [][Next]_vars

\* The filter engine: every attenuation demand on the control channel, with
\* _set_attenuation running on the control task beside the supervisor
NextEngine ==
    \/ SupervisorStep
    \/ \E req \in ModeRequests \cup AttenuationRequests(AttenuationInputs) :
          CtlConfigure(req)
    \/ CtlSetAttenuationBegin
    \/ CtlSetAttenuationCommit

SpecEngine == Init /\ [][NextEngine]_vars

\* Manual control beside the data path
NextManual ==
    \/ SupervisorStep
    \/ HandlerStep
    \/ \E m \in ManualMessages : SubReceive(m)
    \/ \E req \in ModeRequests \cup AttenuationRequests(ManualInputs) :
          CtlConfigure(req)
    \/ CtlSetAttenuationBegin
    \/ CtlSetAttenuationCommit
    \/ CtlClearError

SpecManual == Init /\ [][NextManual]_vars

\* The same with the subscriber task kept running
SpecManualFair == SpecManual /\ WF_vars(SupervisorStep \/ HandlerStep)

\* Timing: the clock advances and the timeout is configured
NextTime ==
    \/ SupervisorStep
    \/ HandlerStep
    \/ \E m \in TimeMessages : SubReceive(m)
    \/ \E req \in ModeRequests \cup TimeoutRequests : CtlConfigure(req)
    \/ CtlClearError
    \/ CtlSingleshot
    \/ Tick

SpecTime == Init /\ [][NextTime]_vars

\* The subscriber task is a thread of its own: it keeps running
SpecTimeFair == SpecTime /\ WF_vars(SupervisorStep \/ HandlerStep)

\* Configuration: every configure request and malformed requests, with
\* _set_attenuation running on the control task beside the supervisor
NextConfig ==
    \/ SupervisorStep
    \/ \E req \in ConfigRequests : CtlConfigure(req)
    \/ CtlSetAttenuationBegin
    \/ CtlSetAttenuationCommit
    \/ CtlInvalid

SpecConfig == Init /\ [][NextConfig]_vars

\* Threshold selection: messages with every combination of counts, and the
\* thresholds configured on the control channel
NextThreshold ==
    \/ SupervisorStep
    \/ HandlerStep
    \/ \E m \in ThresholdMessages : SubReceive(m)
    \/ \E req \in ModeRequests \cup ThresholdRequests : CtlConfigure(req)

SpecThreshold == Init /\ [][NextThreshold]_vars

\* Reset: the reset command on the control channel beside the data path
NextReset ==
    \/ SupervisorStep
    \/ HandlerStep
    \/ \E m \in ResetMessages : SubReceive(m)
    \/ \E req \in ModeRequests : CtlConfigure(req)
    \/ CtlReset

SpecReset == Init /\ [][NextReset]_vars

\* Replay: the mode is configured, a frame stream numbered from 0 is
\* delivered, reset is issued, and the same stream is delivered again
CtlConfigureFirst(req) == stream = <<>> /\ CtlConfigure(req)

NextReplay ==
    \/ SupervisorStep
    \/ DataStep
    \/ \E m \in ReplayMessages : SubReceiveFirst(m)
    \/ SubReceiveAgain
    \/ \E req \in ModeRequests : CtlConfigureFirst(req)
    \/ CtlResetStream

SpecReplay == Init /\ [][NextReplay]_vars

\* Status: status requests on the control channel beside the data path
NextStatus ==
    \/ SupervisorStep
    \/ DataStep
    \/ \E m \in StatusMessages : SubReceive(m)
    \/ \E req \in ModeRequests : CtlConfigure(req)
    \/ CtlStatus
    \/ CtlStatusProcessed
    \/ CtlStatusAttenuation
    \/ CtlStatusState

SpecStatus == Init /\ [][NextStatus]_vars

\* Shutdown: the shutdown command beside the data path, and the join
NextShutdown ==
    \/ SupervisorStep
    \/ HandlerStep
    \/ \E m \in ShutdownMessages : SubReceive(m)
    \/ \E req \in ModeRequests : CtlConfigure(req)
    \/ CtlSingleshot
    \/ CtlShutdown
    \/ CtlJoin

SpecShutdown == Init /\ [][NextShutdown]_vars

\* Both tasks are threads that keep running
SpecShutdownFair ==
    SpecShutdown /\ WF_vars(SupervisorStep \/ HandlerStep) /\ WF_vars(CtlJoin)

\* Levels: attenuation demands outside the range on the control channel,
\* beside data messages that raise and lower the level
NextLevels ==
    \/ SupervisorStep
    \/ DataStep
    \/ \E m \in LevelMessages : SubReceive(m)
    \/ \E req \in ModeRequests \cup AttenuationRequests(LevelInputs) :
          CtlConfigure(req)
    \/ CtlSetAttenuationBegin
    \/ CtlSetAttenuationCommit

SpecLevels == Init /\ [][NextLevels]_vars

\* The subscriber task is inside _process_state_changes
InPass ==
    \/ sub_pc \in {"psc_manual", "psc_mode", "psc_singleshot",
                   "psc_singleshot_clear", "psc_timeout"}
    \/ /\ sub_pc \in {"sa_begin", "sa_commit"}
       /\ sa_ret = "tr_write"
       /\ tr_ret # "result"
    \/ /\ sub_pc = "tr_write"
       /\ tr_ret # "result"

\* A configure request served while the subscriber task is outside
\* _process_state_changes
CtlConfigureBetween(req) == ~InPass /\ CtlConfigure(req)

\* Modes: the mode is configured between two supervisor passes; the timeout,
\* clear_error and singleshot arrive at any time; the clock advances
NextModes ==
    \/ SupervisorStep
    \/ HandlerStep
    \/ \E m \in ModeMessages : SubReceive(m)
    \/ \E req \in ModeRequests : CtlConfigureBetween(req)
    \/ \E req \in TimeoutRequests : CtlConfigure(req)
    \/ CtlClearError
    \/ CtlSingleshot
    \/ Tick

SpecModes == Init /\ [][NextModes]_vars

\* Runs: singleshot runs long enough to bring the attenuation down to 0
NextRun ==
    \/ SupervisorStep
    \/ HandlerStep
    \/ \E m \in RunMessages : SubReceive(m)
    \/ \E req \in ModeRequests : CtlConfigure(req)
    \/ CtlSingleshot

SpecRun == Init /\ [][NextRun]_vars

\* A clear_error command received while the state is healthy
CtlClearErrorHealthy == state >= 0 /\ CtlClearError

\* Early clearing: clear_error is sent only while the state is healthy, beside
\* data messages, mode and timeout requests and the clock
NextEarlyClear ==
    \/ SupervisorStep
    \/ HandlerStep
    \/ \E m \in ModeMessages : SubReceive(m)
    \/ \E req \in ModeRequests \cup TimeoutRequests : CtlConfigure(req)
    \/ CtlClearErrorHealthy
    \/ CtlSingleshot
    \/ Tick

SpecEarlyClear == Init /\ [][NextEarlyClear]_vars

\* A singleshot command received while the state is not SINGLESHOT_WAITING
CtlSingleshotEarly == state # SINGLESHOT_WAITING /\ CtlSingleshot

\* Early start: singleshot is sent only while the controller is not waiting
\* for it, beside data messages, mode requests and clear_error
NextEarlyStart ==
    \/ SupervisorStep
    \/ HandlerStep
    \/ \E m \in ModeMessages : SubReceive(m)
    \/ \E req \in ModeRequests : CtlConfigure(req)
    \/ CtlSingleshotEarly
    \/ CtlClearError

SpecEarlyStart == Init /\ [][NextEarlyStart]_vars

\* A configure request served while the attenuation is not at a level
\* configured by hand: once such a level is set, no further request is sent
\* for as long as it holds
CtlConfigureUnheld(req) ==
    /\ current_attenuation \notin ManualInputs
    /\ CtlConfigure(req)

\* Holding a manual level: the request that sets the attenuation is the last
\* request, beside the data path
NextHold ==
    \/ SupervisorStep
    \/ HandlerStep
    \/ \E m \in ManualMessages : SubReceive(m)
    \/ \E req \in ModeRequests \cup AttenuationRequests(ManualInputs) :
          CtlConfigureUnheld(req)
    \/ CtlSetAttenuationBegin
    \/ CtlSetAttenuationCommit

SpecHold == Init /\ [][NextHold]_vars

----------------------------------------------------------------------------
(* Properties *)

\* A call of _set_attenuation that asks for `target` computes its two demands
MoveComputed(target) ==
    LET level == ClampAttenuation(target) IN
    /\ \A i \in Filters : final_demand'[i] = (level \div (2 ^ i)) % 2
    /\ \A i \in Filters :
        post_in_demand'[i] = 1 <=> (final_demand'[i] = 1 \/ current_demand[i] = 1)
    /\ \A i \in Filters : current_demand[i] = 1 => post_in_demand'[i] = 1
    /\ Level(post_in_demand') >= Level(current_demand)
    /\ Level(post_in_demand') >= level
    /\ current_demand' = current_demand

\* C1: every call of _set_attenuation, from any current demand to any target
\* level, computes a phase-1 demand with post_in[i] = final[i] OR current[i],
\* where final[i] is bit i of the (clamped) target: a filter that is in stays
\* in during phase 1, so the phase-1 level is neither below the level before
\* the move nor below the target; a filter leaves the demand only in phase 2,
\* when the current demand becomes the final demand.
C1_InsertBeforeRemove ==
    [][/\ SubSetAttenuationBegin => MoveComputed(sa_att)
       /\ CtlSetAttenuationBegin => MoveComputed(ctl_att)
       /\ (\E i \in Filters : current_demand[i] = 1 /\ current_demand'[i] = 0)
            => /\ SubSetAttenuationCommit \/ CtlSetAttenuationCommit
               /\ current_demand' = final_demand]_vars

\* A move that both inserts and removes a filter (10 -> 5) is in phase 1 with
\* every filter of either level in
C1_Witness ==
    /\ ctl_pc = "sa_commit"
    /\ Level(current_demand) = 10
    /\ ctl_att = 5
    /\ Level(post_in_demand) = 15
    /\ Level(final_demand) = 5

\* The four filters are demanded in and the level is MAX_ATTENUATION
AtMaximum ==
    /\ current_attenuation = MAX_ATTENUATION
    /\ \A i \in Filters : current_demand[i] = 1

\* A change of state_ that enters an error state, or WAITING from a healthy
\* state
EntersGuarded ==
    /\ state' # state
    /\ \/ state' \in {TIMEOUT, HIGH3_TRIGGERED}
       \/ /\ state' = WAITING
          /\ state \in {IDLE, ACTIVE, SINGLESHOT_WAITING, SINGLESHOT_COMPLETE}

C3_MaxWhenNotTracking ==
    (/\ sub_pc = "loop"
     /\ ctl_pc = "recv"
     /\ state \in {WAITING, SINGLESHOT_WAITING, TIMEOUT, HIGH3_TRIGGERED})
        => current_attenuation = MAX_ATTENUATION

\* The message in hand has frame_number and parameters, and its high3 count
\* is above the threshold
High3Message ==
    /\ msg.kind = "ok"
    /\ msg.parameters.high3 > pixel_count_thresholds.high3

\* C4: a data message handled in WAITING or ACTIVE whose high3 count is above
\* its threshold fires the high3 override whatever its frame number, also
\* when the frame is not after last_processed_frame + 1: the shutter close is
\* commanded, state becomes HIGH3_TRIGGERED, current_attenuation becomes 15,
\* last_adjustment becomes 15, and the one adjustment asked of
\* _set_attenuation is +15, none of high2, high1, low2, low1.
C4_High3Override ==
    /\ []((High3Message /\ sub_pc \in {"result", "post"}) =>
            /\ shutter_closed
            /\ state = HIGH3_TRIGGERED
            /\ current_attenuation = MAX_ATTENUATION
            /\ last_adjustment = 15
            /\ threshold = "high3"
            /\ processed)
    /\ [][(High3Message /\ sub_pc = "process" /\ sub_pc' # "process") =>
            /\ sub_pc' = "sa_begin"
            /\ sa_att' = current_attenuation + 15
            /\ shutter_closed']_vars

\* The override has fired for a frame that is not after the last processed one
C4_Witness ==
    /\ High3Message
    /\ sub_pc = "result"
    /\ msg.frame_number <= last_processed_frame
    /\ msg.parameters.high2 > pixel_count_thresholds.high2
    /\ state = HIGH3_TRIGGERED
    /\ shutter_closed
    /\ current_attenuation = MAX_ATTENUATION
    /\ last_adjustment = 15

\* The message in hand has frame_number and parameters, and its high3 count
\* is not above the threshold
QuietMessage ==
    /\ msg.kind = "ok"
    /\ msg.parameters.high3 <= pixel_count_thresholds.high3

\* The adjustment the counts of the message in hand ask for, 0 for none
Asked ==
    IF msg.parameters.high2 > pixel_count_thresholds.high2 THEN 2
    ELSE IF msg.parameters.high1 > pixel_count_thresholds.high1 THEN 1
    ELSE IF msg.parameters.low2 < pixel_count_thresholds.low2 THEN -2
    ELSE IF msg.parameters.low1 < pixel_count_thresholds.low1 THEN -1
    ELSE 0

\* C6: for a data message handled in WAITING or ACTIVE whose high3 count is
\* not above its threshold and whose frame number is F: if F <=
\* last_processed_frame or F = last_processed_frame + 1 the message is dropped
\* (no adjustment, no motion command, last_processed_frame and
\* current_attenuation unchanged, last_adjustment 0); if F =
\* last_processed_frame + 2, as frame 0 is after the initial -2, the
\* thresholds are evaluated and the adjustment they ask for is applied.
C6_FrameDedup ==
    /\ [][(QuietMessage /\ sub_pc = "process" /\ sub_pc' # "process"
            /\ msg.frame_number <= last_processed_frame + 1) =>
            /\ sub_pc' = "result"
            /\ ~processed'
            /\ UNCHANGED <<attVars, last_processed_frame>>]_vars
    /\ [][(QuietMessage /\ sub_pc = "result" /\ sub_pc' # "result"
            /\ ~processed) =>
            /\ last_adjustment' = 0
            /\ UNCHANGED <<attVars, last_processed_frame>>]_vars
    /\ [][(QuietMessage /\ sub_pc = "process" /\ sub_pc' # "process"
            /\ Asked # 0 /\ msg.frame_number = last_processed_frame + 2) =>
            /\ sub_pc' = "sa_begin"
            /\ sa_att' = current_attenuation + Asked]_vars
    /\ []((QuietMessage /\ sub_pc = "result" /\ processed) =>
            /\ msg.frame_number >= last_processed_frame + 2
            /\ last_adjustment = Asked)

\* Frame 0 was evaluated after the initial -2, and frame 1, whose counts ask
\* for an adjustment, has been dropped
C6_Witness ==
    /\ QuietMessage
    /\ sub_pc = "result"
    /\ ~processed
    /\ last_processed_frame = 0
    /\ msg.frame_number = 1
    /\ Asked = -2

\* C7 as stated: last_processed_frame never decreases (reset is not among the
\* commands of this specification).
C7_ProcessedFrameMonotonic ==
    [][last_processed_frame' >= last_processed_frame]_vars

\* The subscriber task is handling the message in hand, past the publication
\* of its event
InHandler ==
    sub_pc \in {"process", "sa_begin", "sa_commit", "tr_write", "trig_done",
                "result", "post"}
    /\ msg.kind \notin {"none", "null"}

\* C8: the event of a handled data message with frame number F is published
\* before F is decided and carries the frame number, the last_adjustment and
\* the current_attenuation of the moment before the decision; nothing of the
\* decision (attenuation, last_adjustment, last_processed_frame) is written
\* before the publication; and a message that causes no adjustment leaves
\* last_adjustment at 0.
C8_EventBeforeDecision ==
    /\ [](sub_pc = "process" =>
            /\ published = 1
            /\ last_event.frame_number = msg.frame_number
            /\ last_event.adjustment = last_adjustment
            /\ last_event.attenuation = current_attenuation)
    /\ [][(sub_pc = "dispatch" /\ sub_pc' # "dispatch") =>
            UNCHANGED <<attVars, last_adjustment, last_processed_frame, state>>]_vars
    /\ []((sub_pc = "post" /\ msg.kind # "null" /\ ~processed) =>
            last_adjustment = 0)

\* The third step of the example: after frames 0 and 1 from WAITING at 15,
\* frame 2 with all counts zero has published {2, 0, 13} and ends with
\* current_attenuation = 11 and last_processed_frame = 2
C8_Witness ==
    /\ sub_pc = "post"
    /\ msg.frame_number = 2
    /\ msg.parameters = ZeroHistogram
    /\ last_event = [frame_number |-> 2, adjustment |-> 0, attenuation |-> 13]
    /\ last_adjustment = -2
    /\ current_attenuation = 11
    /\ last_processed_frame = 2
    /\ last_received_frame = 2

\* The subscriber task is done with the message in hand: it discards it, it
\* ends its handling, or the process terminates on it
Finishes ==
    \/ sub_pc = "dispatch" /\ sub_pc' \in {"recv", "aborted"}
    \/ sub_pc = "post" /\ sub_pc' # "post"

PassEnded == sub_pc = "recv" /\ idx = 0 /\ pass_start.valid

TimedOut == state = TIMEOUT /\ current_attenuation = MAX_ATTENUATION

SilentTooLong ==
    ((now \div TicksPerSecond) - (last_message_ts \div TicksPerSecond))
        * TicksPerSecond >= timeout

\* The timeout is due: it is what the next pass finds unless a message or a
\* control command comes first
TimeoutDue ==
    /\ SilentTooLong
    /\ \/ state = ACTIVE /\ mode # MANUAL
       \/ state = SINGLESHOT_COMPLETE /\ mode = SINGLESHOT /\ ~singleshot_start

----------------------------------------------------------------------------
(* Threshold selection *)

\* The rules of the threshold selection in their order: the bin, whether the
\* rule is on a count above the threshold (or below it), and the adjustment
SelectionRules ==
    <<[bin |-> "high2", above |-> TRUE, adjustment |-> 2],
      [bin |-> "high1", above |-> TRUE, adjustment |-> 1],
      [bin |-> "low2", above |-> FALSE, adjustment |-> -2],
      [bin |-> "low1", above |-> FALSE, adjustment |-> -1]>>

\* Rule i matches the message in hand: the comparison is strict
RuleMatches(i) ==
    LET r == SelectionRules[i] IN
    IF r.above
    THEN msg.parameters[r.bin] > pixel_count_thresholds[r.bin]
    ELSE msg.parameters[r.bin] < pixel_count_thresholds[r.bin]

\* The first of the rules is i
FirstMatch(i) ==
    /\ RuleMatches(i)
    /\ \A j \in 1 .. (i - 1) : ~RuleMatches(j)

\* The subscriber decides on a frame that is neither dropped by its number
\* nor over the high3 threshold
Evaluates ==
    /\ sub_pc = "process"
    /\ sub_pc' # "process"
    /\ msg.kind = "ok"
    /\ msg.parameters.high3 <= pixel_count_thresholds.high3
    /\ msg.frame_number > last_processed_frame + 1

\* C11: for every evaluated frame and every combination of counts and
\* thresholds, exactly the first matching rule in the order high2 above (+2),
\* high1 above (+1), low2 below (-2), low1 below (-1) is applied, and no
\* adjustment is made if none matches; the comparisons are strict, so a count
\* equal to its threshold triggers nothing.
C11_FirstMatchingRule ==
    /\ [][Evaluates =>
            \A i \in DOMAIN SelectionRules :
                FirstMatch(i) =>
                    /\ threshold' = SelectionRules[i].bin
                    /\ sub_pc' = "sa_begin"
                    /\ sa_att' = current_attenuation + SelectionRules[i].adjustment]_vars
    /\ [][(Evaluates /\ \A i \in DOMAIN SelectionRules : ~RuleMatches(i)) =>
            /\ sub_pc' = "result"
            /\ ~processed'
            /\ UNCHANGED <<attVars, last_processed_frame>>]_vars
    /\ [][(sub_pc = "trig_done" /\ sub_pc' # "trig_done") =>
            /\ \A i \in DOMAIN SelectionRules :
                    threshold = SelectionRules[i].bin =>
                        last_adjustment' = SelectionRules[i].adjustment
            /\ processed']_vars

\* With the high2 threshold raised to the count of the message, the high1
\* rule has been applied to a message that also matches the low2 rule
C11_Witness ==
    /\ sub_pc = "sa_begin"
    /\ sa_ret = "trig_done"
    /\ threshold = "high1"
    /\ pixel_count_thresholds.high2 = Above
    /\ msg.parameters.high2 = pixel_count_thresholds.high2
    /\ msg.parameters.high1 > pixel_count_thresholds.high1
    /\ msg.parameters.low2 < pixel_count_thresholds.low2
    /\ sa_att = current_attenuation + 1

----------------------------------------------------------------------------
(* Messages outside WAITING and ACTIVE *)

\* The subscriber leaves the state test of line 432 with a message received
\* while the state is neither WAITING nor ACTIVE
LeavesTestUnhandled ==
    /\ sub_pc = "dispatch"
    /\ sub_pc' # "dispatch"
    /\ state \notin {WAITING, ACTIVE}

\* C12: a data message received while the state is not WAITING and not ACTIVE
\* is consumed and discarded: state, last_received_frame,
\* last_processed_frame, last_message_ts, last_adjustment, current_attenuation
\* and the demand vectors are unchanged, no motion is commanded, and the
\* subscriber goes on to the next socket.
C12_DiscardOutsideTracking ==
    [][LeavesTestUnhandled =>
        /\ sub_pc' = "recv"
        /\ idx' = idx + 1
        /\ msg' = NoMsg
        /\ UNCHANGED <<state, frameVars, last_message_ts, last_adjustment,
                       attVars, shutter_closed, last_event, published,
                       callVars>>]_vars

\* A message over the high3 threshold has been received in SINGLESHOT_COMPLETE
\* at attenuation 13 and is at the state test
C12_Witness ==
    /\ sub_pc = "dispatch"
    /\ state = SINGLESHOT_COMPLETE
    /\ msg.kind = "ok"
    /\ msg.parameters.high3 > pixel_count_thresholds.high3
    /\ current_attenuation = 13
    /\ ~shutter_closed

----------------------------------------------------------------------------
(* The high3 message and the control state *)

\* The event a message received now would have published for it first
EventBeforeDecision ==
    [frame_number |-> msg.frame_number, adjustment |-> last_adjustment,
     attenuation |-> current_attenuation]

\* What the high3 message in hand leads to once it has left the state test:
\* the shutter close is commanded with the decision, and the message ends in
\* HIGH3_TRIGGERED with one event published
High3Closes ==
    /\ [][(High3Message /\ sub_pc = "process" /\ sub_pc' # "process") =>
            /\ shutter_closed'
            /\ published = 1
            /\ UNCHANGED last_event]_vars
    /\ []((High3Message /\ sub_pc = "post") =>
            /\ state = HIGH3_TRIGGERED
            /\ shutter_closed
            /\ published = 1)

\* C13 as stated: in any control state, a received data message whose high3
\* count exceeds the high3 threshold has an event with the pre-decision
\* last_adjustment and current_attenuation published, the shutter close
\* commanded and the state made HIGH3_TRIGGERED.
C13_High3InAnyState ==
    /\ [][(High3Message /\ sub_pc = "dispatch" /\ sub_pc' # "dispatch") =>
            /\ sub_pc' = "process"
            /\ published' = 1
            /\ last_event' = EventBeforeDecision]_vars
    /\ High3Closes

\* C13, amended: the same for a message received in WAITING or ACTIVE; in any
\* other state the message is discarded, the shutter is not commanded and the
\* state stays.
C13_High3WhenTracking ==
    /\ [][(High3Message /\ sub_pc = "dispatch" /\ sub_pc' # "dispatch"
            /\ state \in {WAITING, ACTIVE}) =>
            /\ sub_pc' = "process"
            /\ published' = 1
            /\ last_event' = EventBeforeDecision]_vars
    /\ [][(High3Message /\ sub_pc = "dispatch" /\ sub_pc' # "dispatch"
            /\ state \notin {WAITING, ACTIVE}) =>
            /\ sub_pc' = "recv"
            /\ UNCHANGED <<state, shutter_closed, published, last_event>>]_vars
    /\ High3Closes

\* A high3 message received in ACTIVE at attenuation 13 has been handled: its
\* event carries -2 and 13, the shutter is closed and the state is
\* HIGH3_TRIGGERED
C13_Witness ==
    /\ High3Message
    /\ sub_pc = "post"
    /\ state = HIGH3_TRIGGERED
    /\ shutter_closed
    /\ last_event = [frame_number |-> msg.frame_number, adjustment |-> -2,
                     attenuation |-> 13]
    /\ current_attenuation = MAX_ATTENUATION

----------------------------------------------------------------------------
(* Clearing an error *)

\* The state a cleared error leads to
ClearTarget == IF mode = SINGLESHOT THEN SINGLESHOT_WAITING ELSE WAITING

\* C14: if the state is TIMEOUT or HIGH3_TRIGGERED, the mode is CONTINUOUS or
\* SINGLESHOT and clear_error has been received, then with the subscriber task
\* kept running a supervisor pass eventually clears the flag and moves the
\* state to SINGLESHOT_WAITING when the mode is SINGLESHOT and to WAITING
\* otherwise, with current_attenuation still 15.  The mode is taken to stay
\* CONTINUOUS or SINGLESHOT until that pass.
C14_ClearErrorRecovers ==
    /\ ((state < 0 /\ mode # MANUAL /\ clear_error)
            ~> (state >= 0 \/ mode = MANUAL))
    /\ [][(sub_pc = "psc_timeout" /\ state < 0 /\ state' >= 0 /\ mode # MANUAL) =>
            /\ clear_error
            /\ ~clear_error'
            /\ state' = ClearTarget
            /\ current_attenuation' = MAX_ATTENUATION]_vars

----------------------------------------------------------------------------
(* Malformed data messages *)

\* The message in hand is malformed: not valid JSON, without an integer
\* frame_number, or without parameters
Malformed == msg.kind \in {"null", "no_frame", "no_params"}

\* C15 as stated: a malformed data message received in any control state, in
\* particular WAITING, does not change the control state; only a well-formed
\* data message received in WAITING causes the transition WAITING -> ACTIVE.
C15_MalformedKeepsState ==
    /\ [][Malformed => UNCHANGED state]_vars
    /\ [][(state = WAITING /\ state' = ACTIVE) => msg.kind = "ok"]_vars

\* C16 as stated: no data message and no control request, however malformed,
\* terminates either task; a malformed data message is dropped and the
\* subscriber loop continues, and the only way either loop ends is the
\* shutdown command.
C16_OnlyShutdownEnds ==
    /\ [][(Malformed /\ sub_pc = "dispatch" /\ sub_pc' # "dispatch") =>
            sub_pc' \in {"recv", "post", "process"}]_vars
    /\ []((sub_pc \in {"done", "aborted"} \/ ctl_pc = "done") => shutdown)

----------------------------------------------------------------------------
(* Configure requests *)

\* The reply to request req is sent in this step: by _handle_config at once,
\* or when the _set_attenuation it called has returned
Replies(req) ==
    \/ CtlConfigure(req) /\ ctl_pc' = "recv"
    \/ CtlSetAttenuationCommit /\ ctl_req = [req EXCEPT !.attenuation = 0]

\* The integer a request sends as its mode, mode_high * 2^16 + mode, is v
SentModeIs(req, v) == req.mode_high = 0 /\ req.mode = v

\* Key k of request req is rejected, the mode being m when the key is
\* handled: a mode value outside 0..2, a negative timeout, an attenuation
\* while the mode is not MANUAL, a mapping with no recognised entry
KeyRejected(req, k, m) ==
    /\ k \in req.keys
    /\ k \notin req.bad
    /\ CASE k = "mode" -> \A v \in Modes : ~SentModeIs(req, v)
         [] k = "in_positions" -> DOMAIN req.in_positions = {}
         [] k = "out_positions" -> DOMAIN req.out_positions = {}
         [] k = "pixel_count_thresholds" -> DOMAIN req.thresholds = {}
         [] k = "attenuation" -> m # MANUAL
         [] k = "timeout" -> req.timeout < 0

\* Key k of request req is accepted
KeyAccepted(req, k, m) ==
    /\ k \in req.keys
    /\ k \notin req.bad
    /\ ~KeyRejected(req, k, m)

\* The value of key k of request req is in force after the step
KeyApplied(req, k) ==
    CASE k = "mode" -> SentModeIs(req, mode')
      [] k = "in_positions" ->
            \A i \in DOMAIN req.in_positions : in_positions'[i] = req.in_positions[i]
      [] k = "out_positions" ->
            \A i \in DOMAIN req.out_positions : out_positions'[i] = req.out_positions[i]
      [] k = "pixel_count_thresholds" ->
            \A b \in DOMAIN req.thresholds :
                pixel_count_thresholds'[b] = req.thresholds[b]
      [] k = "attenuation" ->
            /\ CtlSetAttenuationCommit
            /\ current_attenuation' = ClampAttenuation(req.attenuation)
      [] k = "timeout" -> timeout' = req.timeout

\* The target of key k is as it was before the step
KeyTargetUnchanged(k) ==
    CASE k = "mode" -> UNCHANGED mode
      [] k = "in_positions" -> UNCHANGED in_positions
      [] k = "out_positions" -> UNCHANGED out_positions
      [] k = "pixel_count_thresholds" -> UNCHANGED pixel_count_thresholds
      [] k = "attenuation" -> UNCHANGED attVars /\ ctl_pc' = "recv"
      [] k = "timeout" -> UNCHANGED timeout

\* C17 as stated: for every configure request that contains several
\* recognised keys of which at least one is rejected, the reply has success =
\* false whatever the position of the rejected key among the others, and
\* every accepted key of the request stays applied.
C17_RejectedKeyFailsReply ==
    [][\A req \in ConfigRequests :
        (/\ Replies(req)
         /\ req.bad = {}
         /\ Cardinality(req.keys) >= 2
         /\ \E k \in req.keys : KeyRejected(req, k, mode')) =>
            /\ response' = [sent |-> TRUE, success |-> FALSE]
            /\ \A k \in req.keys :
                    KeyAccepted(req, k, mode') => KeyApplied(req, k)]_vars

\* C18 as stated: for a configure request in which one key's value has the
\* wrong type, the reply has success = false and every other key of the
\* request whose value is valid is applied, whether it is handled before or
\* after the failing key.
C18_WrongTypeKeepsOthers ==
    [][\A req \in ConfigRequests :
        (Replies(req) /\ Cardinality(req.bad) = 1) =>
            /\ response' = [sent |-> TRUE, success |-> FALSE]
            /\ \A k \in req.keys :
                    KeyAccepted(req, k, mode') => KeyApplied(req, k)]_vars

\* C19 as stated: a rejected configure key leaves its target unchanged and,
\* when it is the only key of the request, yields success = false: a mode
\* value outside {0,1,2} leaves mode unchanged, a negative timeout leaves
\* timeout unchanged, an attenuation key received while mode is not MANUAL
\* leaves current_attenuation and the demand vectors unchanged and commands
\* no motion; an attenuation key is accepted exactly when mode = MANUAL at the
\* time the key is handled.
C19_RejectedKeyNoEffect ==
    [][\A req \in ConfigRequests :
        (CtlConfigure(req) /\ req.bad = {}) =>
            /\ \A k \in req.keys :
                    KeyRejected(req, k, mode') => KeyTargetUnchanged(k)
            /\ (Cardinality(req.keys) = 1
                    /\ \E k \in req.keys : KeyRejected(req, k, mode')) =>
                        response' = [sent |-> TRUE, success |-> FALSE]
            /\ "attenuation" \in req.keys =>
                    (ctl_pc' = "sa_begin" <=> mode' = MANUAL)]_vars

----------------------------------------------------------------------------
(* Reset *)

\* Both frame counters hold the sentinel: the state reset leaves, and the one
\* the constructor leaves
CountersReset ==
    /\ last_received_frame = NO_FRAMES_PROCESSED
    /\ last_processed_frame = NO_FRAMES_PROCESSED

\* _handle_data_message starts on a message: its first write, line 552
StartsHandling == sub_pc = "dispatch" /\ sub_pc' = "process"

\* C20: after the reply to a reset, whatever the subscriber task is doing
\* while reset executes, both frame counters keep the sentinel until the next
\* data message is handled (the only step that ends the reset state is the
\* start of _handle_data_message on a message), and a message with frame
\* number 0 whose handling starts in the reset state passes the frame test
C20_ResetHoldsUntilNextMessage ==
    [][/\ (CountersReset /\ ~CountersReset') => StartsHandling
       /\ (CountersReset /\ StartsHandling /\ msg.frame_number = 0)
            => ~IgnoreFrame(msg.frame_number, last_processed_frame)]_vars

----------------------------------------------------------------------------
(* Replay after reset *)

\* C21: for every frame stream numbered from 0 and an unchanged configuration,
\* the adjustment chosen for each frame when the stream is delivered again
\* after a reset is the adjustment chosen for that frame in the first run
C21_ReplayRepeatsAdjustments ==
    resent >= 0 =>
        \A k \in 1 .. Len(stream) :
            Len(chosen) >= Len(stream) + k => chosen[Len(stream) + k] = chosen[k]

----------------------------------------------------------------------------
(* Shutdown *)

\* C22: the shutdown command is answered with success = true and the control
\* loop is left at once; with both tasks kept running, from every reachable
\* state in which shutdown has been received the subscriber task leaves its
\* loop at a loop head and run returns after joining it
C22_ShutdownTerminates ==
    /\ [][(~shutdown /\ shutdown')
            => (response' = Reply(TRUE) /\ ctl_pc' = "done")]_vars
    /\ [][(sub_pc # "done" /\ sub_pc' = "done") => (sub_pc = "loop" /\ shutdown)]_vars
    /\ shutdown ~> (ctl_pc = "returned" /\ sub_pc = "done")

----------------------------------------------------------------------------
(* Status *)

\* C23: every status reply is a consistent snapshot: the state, the
\* attenuation and the two frame counters it reports all held together at one
\* instant between the start of _handle_status and the reply, whatever the
\* subscriber task did meanwhile
C23_StatusIsSnapshot == status.sent => status.snapshot

----------------------------------------------------------------------------
(* Singleshot runs *)

\* A supervisor pass that began in SINGLESHOT mode and that no control
\* command has interrupted
SingleshotPass == pass_start.valid /\ pass_start.mode = SINGLESHOT /\ mode = SINGLESHOT

\* The frame received last caused no adjustment
LastFrameIdle == last_received_frame >= 0 /\ ~applied.valid

\* The frame received last caused no adjustment and is not the one that
\* follows the frame processed last
LastFrameSettled == last_received_frame >= last_processed_frame + 2

\* The order of a singleshot run: SINGLESHOT_WAITING is left for WAITING on a
\* singleshot command, ACTIVE is entered from WAITING when a data message has
\* been handled, and SINGLESHOT_COMPLETE is entered from ACTIVE, after a frame
\* that caused no adjustment or at attenuation 0, with the attenuation and
\* the demands left as they are
RunOrder ==
    /\ (SingleshotPass /\ state = SINGLESHOT_WAITING /\ state' # state)
            => (state' = WAITING /\ singleshot_start)
    /\ (mode = SINGLESHOT /\ state # ACTIVE /\ state' = ACTIVE)
            => (state = WAITING /\ sub_pc = "post")
    /\ (SingleshotPass /\ state' = SINGLESHOT_COMPLETE /\ state' # state)
            => /\ state = ACTIVE
               /\ LastFrameIdle \/ current_attenuation = 0
               /\ UNCHANGED attVars

\* The step of the supervisor pass that looks at the singleshot run
LooksAtRun == sub_pc = "psc_singleshot" /\ sub_pc' # sub_pc /\ state = ACTIVE

----------------------------------------------------------------------------
(* Manual mode *)

\* A step of _set_attenuation called by _trigger_threshold for a data message
AdjustsForMessage ==
    /\ sub_pc \in {"sa_begin", "sa_commit"}
    /\ sa_ret = "trig_done"
    /\ sub_pc' # sub_pc

\* C25: while the mode is MANUAL, whatever the interleaving of the two tasks,
\* no data message changes current_attenuation or a demand vector, no data
\* message starts an adjustment, and the state does not become TIMEOUT
C25_ManualLeavesFilters ==
    [][mode = MANUAL =>
        /\ AdjustsForMessage => UNCHANGED attVars
        /\ ~(sub_pc = "process" /\ sub_pc' = "sa_begin")
        /\ ~(state # TIMEOUT /\ state' = TIMEOUT)]_vars

----------------------------------------------------------------------------
(* After a singleshot run *)

\* C26: once SINGLESHOT_COMPLETE is entered the adjustment is paused without
\* timing out: while the mode stays SINGLESHOT and no singleshot command is
\* pending, the state stays SINGLESHOT_COMPLETE and neither the attenuation
\* nor a demand vector changes, however far the clock advances
C26_CompleteNeverTimesOut ==
    [][(/\ state = SINGLESHOT_COMPLETE
        /\ mode = SINGLESHOT /\ mode' = SINGLESHOT
        /\ ~singleshot_start /\ ~singleshot_start')
            => (state' = SINGLESHOT_COMPLETE /\ UNCHANGED attVars)]_vars

----------------------------------------------------------------------------
(* Transitions between healthy states *)

\* _transition_state is called on the subscriber task from a healthy state
\* for another healthy state that is not WAITING: the call commands the
\* maximum (its step enters _set_attenuation) or writes state_ at once
HealthyCall(target) ==
    /\ state >= 0
    /\ target >= 0
    /\ target # state
    /\ target # WAITING
    /\ \/ state' = target /\ sub_pc # "tr_write"
       \/ /\ sub_pc' = "sa_begin" /\ sub_pc # "sa_begin"
          /\ sa_ret' = "tr_write"
          /\ tr_state' = target

\* C27: every transition between two healthy states whose target is not
\* WAITING writes the state without a call of _set_attenuation: the
\* attenuation and the demand vectors are unchanged and no motion is commanded
C27_HealthyKeepsAttenuation ==
    [][\A target \in States :
        HealthyCall(target) => (state' = target /\ UNCHANGED attVars)]_vars

----------------------------------------------------------------------------
(* Adjustments that move nothing *)

\* _trigger_threshold stores the adjustment the next event will carry, the
\* event of the frame in hand having been published before the decision
StoresAdjustment ==
    /\ sub_pc = "trig_done"
    /\ sub_pc' # sub_pc
    /\ last_event.frame_number = msg.frame_number

\* C28: an adjustment other than 0 is stored for the next event only by a
\* decision that moved the filters: current_attenuation then differs from the
\* attenuation carried by the event of the frame that was decided, the
\* bounds 0 and 15 included
C28_AdjustmentMeansMove ==
    [][(StoresAdjustment /\ last_adjustment' # 0 /\ ~ctl_moved)
            => current_attenuation # last_event.attenuation]_vars

----------------------------------------------------------------------------
(* The filter engine under both tasks *)

\* A call of _set_attenuation is in progress on the subscriber task, on the
\* control task
SubInSetAttenuation == sub_pc \in {"sa_begin", "sa_commit"}
CtlInSetAttenuation == ctl_pc \in {"sa_begin", "sa_commit"}

\* C29: whenever no call of _set_attenuation is in progress, the attenuation
\* level is the sum of 2^i over the filters that current_demand has IN, and
\* current_demand equals final_demand, whatever the interleaving of
\* configure(attenuation) requests with the subscriber's adjustments
C29_LevelMatchesDemand ==
    (~SubInSetAttenuation /\ ~CtlInSetAttenuation)
        => /\ current_attenuation = Level(current_demand)
           /\ current_demand = final_demand

\* C30: in no reachable state are two executions of _set_attenuation in
\* progress, one on the subscriber task and one on the control task: the two
\* tasks are never both between the computation of the demands and the
\* update of the current values
C30_OneAdjustmentInFlight == ~(sub_pc = "sa_commit" /\ ctl_pc = "sa_commit")

----------------------------------------------------------------------------
(* The level _set_attenuation leaves *)

\* min(max(t, 0), MAX_ATTENUATION)
Bounded(t) ==
    LET low == IF t > 0 THEN t ELSE 0 IN
        IF low < MAX_ATTENUATION THEN low ELSE MAX_ATTENUATION

\* The current values are those of `level`
LevelReached(level) ==
    /\ current_attenuation' = level
    /\ \A i \in Filters : current_demand'[i] = (level \div (2 ^ i)) % 2
    /\ final_demand' = current_demand'

\* C31: a call _set_attenuation(t) during which the other task begins no call
\* of its own takes min(max(t, 0), 15) for its level, whatever the integer t,
\* and ends with current_attenuation equal to that level, current_demand[i]
\* equal to its bit i and final_demand equal to current_demand; and
\* current_attenuation is within 0..15 in every reachable state.
C31_ClampedLevel ==
    /\ [][/\ SubSetAttenuationBegin => sa_att' = Bounded(sa_att)
          /\ CtlSetAttenuationBegin => ctl_att' = Bounded(ctl_att)
          /\ (SubSetAttenuationCommit /\ ~ctl_moved) => LevelReached(sa_att)
          /\ (CtlSetAttenuationCommit /\ ctl_moved) => LevelReached(ctl_att)]_vars
    /\ [](current_attenuation \in 0 .. MAX_ATTENUATION)

\* A message that triggers low2 at attenuation 0 asks for -2, and the call
\* has taken 0 for its level
C31_Witness ==
    /\ sub_pc = "sa_commit"
    /\ sa_ret = "trig_done"
    /\ threshold = "low2"
    /\ current_attenuation = 0
    /\ sa_att = 0
    /\ ~ctl_moved

----------------------------------------------------------------------------
(* The state a supervisor pass leaves *)

\* The step ends _process_state_changes
EndsPass == InPass /\ sub_pc' = "recv"

\* The state fits the mode
Reconciled ==
    /\ mode' = MANUAL => state' = IDLE
    /\ mode' = CONTINUOUS
        => state' \notin {IDLE, SINGLESHOT_WAITING, SINGLESHOT_COMPLETE}
    /\ mode' = SINGLESHOT
        => /\ state' # IDLE
           /\ state' = WAITING => singleshot_start'

\* C32: when a pass of _process_state_changes during which the mode does not
\* change ends, the state is IDLE in MANUAL mode; it is none of IDLE,
\* SINGLESHOT_WAITING and SINGLESHOT_COMPLETE in CONTINUOUS mode; and in
\* SINGLESHOT mode it is not IDLE, and it is WAITING only if singleshot_start
\* is set.
C32_PassReconcilesMode == [][EndsPass => Reconciled]_vars

\* A pass in SINGLESHOT mode that found the state WAITING has ended with the
\* state WAITING and singleshot_start set
C32_Witness ==
    /\ sub_pc = "recv"
    /\ idx = 0
    /\ pass_start.valid
    /\ pass_start.mode = SINGLESHOT
    /\ pass_start.state = WAITING
    /\ mode = SINGLESHOT
    /\ state = WAITING
    /\ singleshot_start

----------------------------------------------------------------------------
(* The end of a singleshot run *)

\* _process_singleshot_state is run with the state ACTIVE
FindsActive == SubSingleshot /\ state = ACTIVE

\* The step after the transition to SINGLESHOT_COMPLETE
ClearsStart == sub_pc = "psc_singleshot_clear" /\ sub_pc' # sub_pc

\* C33: a pass in SINGLESHOT mode that finds the state ACTIVE makes the
\* transition to SINGLESHOT_COMPLETE if and only if last_received_frame >=
\* last_processed_frame + 2 or current_attenuation = 0, and then clears
\* singleshot_start, which nothing else clears; the transition commands no
\* move and leaves current_attenuation; and the pass goes on to the timeout
\* test without taking the start branch: the state is not set to WAITING.
C33_CompleteWhenStabilised ==
    [][/\ FindsActive
            => /\ state' = SINGLESHOT_COMPLETE
                    <=> \/ last_received_frame >= last_processed_frame + 2
                        \/ current_attenuation = 0
               /\ state' \in {ACTIVE, SINGLESHOT_COMPLETE}
               /\ attVars' = attVars
               /\ sub_pc' = IF state' = SINGLESHOT_COMPLETE
                            THEN "psc_singleshot_clear"
                            ELSE "psc_timeout"
               /\ singleshot_start' = singleshot_start
       /\ ClearsStart
            => /\ ~singleshot_start'
               /\ state' = state
               /\ attVars' = attVars
               /\ sub_pc' = "psc_timeout"
       /\ (singleshot_start /\ ~singleshot_start') => ClearsStart]_vars

\* A run that has come down to attenuation 0 with every frame processed is
\* complete
C33_Witness ==
    /\ sub_pc = "psc_singleshot_clear"
    /\ mode = SINGLESHOT
    /\ state = SINGLESHOT_COMPLETE
    /\ current_attenuation = 0
    /\ last_received_frame = last_processed_frame

----------------------------------------------------------------------------
(* The same level demanded again *)

\* The current values are those a call _set_attenuation(level) leaves, for a
\* level within 0 .. MAX_ATTENUATION
LeftAt(level) ==
    /\ level \in 0 .. MAX_ATTENUATION
    /\ current_attenuation = level
    /\ \A i \in Filters : current_demand[i] = (level \div (2 ^ i)) % 2
    /\ final_demand = current_demand

\* A step of a call that demands the level the call before it left: its first
\* step, and its last step when the other task began no call meanwhile
BeginsAgain ==
    \/ SubSetAttenuationBegin /\ LeftAt(sa_att)
    \/ CtlSetAttenuationBegin /\ LeftAt(ctl_att)
EndsAgain ==
    \/ SubSetAttenuationCommit /\ ~ctl_moved /\ LeftAt(sa_att)
    \/ CtlSetAttenuationCommit /\ ctl_moved /\ LeftAt(ctl_att)

\* C34: a call _set_attenuation(L) that follows a call _set_attenuation(L),
\* for L in 0..15 and whatever the demand before the first call, leaves
\* current_demand, post_in_demand, final_demand and current_attenuation as the
\* first call left them.
C34_SecondCallChangesNothing ==
    [][(BeginsAgain \/ EndsAgain) => attVars' = attVars]_vars

\* C34, amended: the second call leaves current_demand, final_demand and
\* current_attenuation as the first call left them, and sets post_in_demand to
\* final_demand: it demands in both phases the positions the filters hold.
\* (The first call left in post_in_demand the filters of the demand before it
\* as well.)
C34_SecondCallMovesNothing ==
    [][/\ BeginsAgain
            => /\ <<current_attenuation, current_demand, final_demand>>'
                    = <<current_attenuation, current_demand, final_demand>>
               /\ post_in_demand' = final_demand'
       /\ EndsAgain => attVars' = attVars]_vars

\* Level 5 is demanded on the control channel at level 5, and the call has
\* computed its demands
C34_Witness ==
    /\ ctl_pc = "sa_commit"
    /\ ctl_att = 5
    /\ ctl_moved
    /\ current_attenuation = 5
    /\ Level(current_demand) = 5
    /\ final_demand = current_demand
    /\ post_in_demand = final_demand

----------------------------------------------------------------------------
(* clear_error received before the error *)

\* The branch of lines 483-492 is taken: the error is cleared
ErrorCleared == clear_error /\ ~clear_error'

\* C35: a clear_error command received while the state is healthy has no
\* lasting effect.  When every clear_error command is received in a healthy
\* state, no command is received after an error state was entered, so no
\* error state is left through error clearing: the branch of lines 483-492
\* is never taken.
C35_EarlyClearHasNoEffect == [][~ErrorCleared]_vars

----------------------------------------------------------------------------
(* Leaving an error state *)

\* C36: the state leaves TIMEOUT and HIGH3_TRIGGERED for a healthy state only
\* in the step in which the supervisor consumes a clear_error command (the
\* branch of lines 483-492); no configure request and no data message moves
\* the controller out of an error state.
C36_ErrorHeldUntilCleared ==
    [][(state < 0 /\ state' >= 0) => ErrorCleared]_vars

----------------------------------------------------------------------------
(* singleshot received before the controller waits for it *)

\* The start branch of _process_singleshot_state is taken from
\* SINGLESHOT_WAITING in SINGLESHOT mode
StartsRun ==
    /\ SubSingleshot
    /\ mode = SINGLESHOT
    /\ state = SINGLESHOT_WAITING
    /\ tr_state' = WAITING

\* C37: in SINGLESHOT mode the controller leaves SINGLESHOT_WAITING for
\* WAITING only in response to a singleshot command received after it entered
\* SINGLESHOT_WAITING.  When every singleshot command is received in another
\* state, no run is started from SINGLESHOT_WAITING.
C37_EarlySingleshotStartsNothing == [][~StartsRun]_vars

----------------------------------------------------------------------------
(* A started singleshot run before its first message *)

\* The pass in progress began in SINGLESHOT mode with the run started, and no
\* request has been served since
InStartedRunPass ==
    /\ InPass
    /\ pass_start.valid
    /\ pass_start.mode = SINGLESHOT
    /\ pass_start.state = WAITING
    /\ pass_start.start
    /\ current_attenuation = MAX_ATTENUATION

\* C38: in SINGLESHOT mode, once a run has been started (state WAITING,
\* attenuation 15) and while no data message and no request arrives, the state
\* is WAITING at every step of every supervisor pass, and no pass calls
\* _set_attenuation.
C38_StartedRunStaysWaiting ==
    InStartedRunPass
        => /\ state = WAITING
           /\ sub_pc \notin {"sa_begin", "sa_commit"}

----------------------------------------------------------------------------
(* The attenuation configured in MANUAL mode *)

\* The attenuation is at a level that only a configure request sets
AtManualLevel == current_attenuation \in ManualInputs

\* C39: after a configure request has set the attenuation to L in MANUAL
\* mode, current_attenuation stays L for as long as the mode remains MANUAL
\* and no further attenuation is configured, whatever the subscriber task
\* does.  When no request follows the one that set L, current_attenuation
\* never leaves L.
C39_ManualLevelHeld ==
    [][AtManualLevel => current_attenuation' = current_attenuation]_vars

----------------------------------------------------------------------------
(* The time before a timeout *)

\* The timeout branch of lines 475-481 is taken
EntersTimeout ==
    /\ SubTimeout
    /\ sub_pc' = "sa_begin"
    /\ tr_state' = TIMEOUT

\* C40: no supervisor pass enters TIMEOUT while the wall clock, read at
\* sub-second resolution, is less than timeout_seconds after last_message_ts.
C40_TimeoutNotEarly ==
    [][EntersTimeout => now - last_message_ts >= timeout]_vars

====
